---- MODULE Spec2Model ----
(***************************************************************************)
(* The Elo ledger drivers of pc_mouseparty/rank/rank.py:                   *)
(*   calculate_elo_rating, update_elo_rating,                              *)
(*   get_ranking_from_elo_rating_dictionary,                               *)
(*   iterate_elo_rating_calculation_for_dataframe                          *)
(* and their *_elo_score_* twins (same code, other tie handling).          *)
(*                                                                         *)
(* One run of a driver is one behaviour: Init is the state before the      *)
(* first row of the for loop, every step consumes the next row of the      *)
(* dataframe (entirely, as one loop iteration does), Finish is the return. *)
(*                                                                         *)
(* Numbers.  Ratings are Python floats rounded to one decimal.  The model  *)
(* holds a rating as an integer number of hundredths of a point            *)
(* (RatingScale), so that the rounding of calculate_elo_rating is a real   *)
(* step, and a score or expected score as an integer number of 1/2000      *)
(* (ScoreScale), which makes k_factor * (score - expected_score) a whole   *)
(* number of hundredths.                                                   *)
(***************************************************************************)
EXTENDS Integers, Sequences, FiniteSets, TLC

\* ---------------------------------------------------------------- bounds
\* Rows of the dataframe a run consumes when no tie column is configured.
MaxRows == 3
\* Rows of the dataframe a run consumes when a tie column is configured.
MaxTieRows == 2
\* The stop of range(0, 99999) scaled down for the specification SpecScaled,
\* under which the exhaustion of all_indexes is within reach of a finite run.
\* It is odd like 99999: the iterator runs dry at a loser_index.
ScaledIndexStop == 5
\* Calls of the driver one after the other, and the rows of the dataframe
\* each of them consumes, under the specification SpecRuns.
MaxRuns == 3
MaxRunRows == 1
\* Sheets generate_elo_scores reads, and the contests of a sheet, under the
\* specification SpecSheets.
MaxSheets == 2
MaxSheetRows == 2

\* The bouts of one subject and behavior: at most MaxBouts bouts, of start
\* and stop times in whole seconds up to MaxTime, thresholds up to
\* MaxThreshold seconds
MaxBouts == 2
MaxTime == 6
MaxThreshold == 3

\* A tone column of at most MaxTones cells
MaxTones == 3

\* The node arrays of a video of at most MaxFrames frames, positions up to
\* MaxPosition, epsilon up to MaxEpsilon
MaxFrames == 2
MaxPosition == 2
MaxEpsilon == 3

\* ----------------------------------------------------------------- units
RatingScale == 100
ScoreScale == 2000

\* ------------------------------------------------------- program constants
k_factor == 20
number_of_decimals == 1
default_elo_rating == 1000 * RatingScale
AllIndexesStop == 99999

\* score=1 for a win, 0.5 for a draw, 0 for a loss
Win == ScoreScale
Draw == ScoreScale \div 2
Loss == 0

\* ------------------------------------------------------------ input values
Subjects == {"A", "B", "C"}
\* A missing id: the NaN that pandas holds in an empty cell of an id column.
NaN == "nan"
None == "None"
\* The cell of a column the driver does not read.
Unread == "unread"
\* Cells of a tie column.  "True"/"False" are Python objects of that truth
\* value (bool, int 1/0, ...), "np.True_"/"np.False_" numpy booleans, which
\* have an .any() method, "NaN" the float nan of an empty cell, "NA" pandas.NA,
\* the one value bool() refuses, so the one that makes astype(bool) raise.
\* A column without pandas.NA is drawn from CoercibleCells, a column with one
\* from UncoercibleCells (a Python False there behaves as the Python True);
\* either may hold empty cells.
CoercibleCells == {"True", "False", "NaN"}
UncoercibleCells == {"NA", "NaN", "True", "np.True_", "np.False_"}

\* ------------------------------------------------------ calculate_elo_rating
\* ExpectedScoreThreshold[g], g in 1..1999, is the largest rating difference d,
\* in hundredths of a point, with 1 / (1 + 10 ** (d / 400)) >= g / 2000, that is
\* floor(40000 * log10((2000 - g) / g)).  It tabulates the logistic curve of
\* line 47, which TLA+ has no arithmetic for; the table is strictly decreasing.
ExpectedScoreThreshold ==
  <<
     132032, 119982, 112930, 107924, 104038, 100862, 98176, 95847, 93793, 91954, 90289, 88769,
     87370, 86074, 84866, 83736, 82674, 81673, 80725, 79825, 78969, 78152, 77371, 76623,
     75905, 75214, 74550, 73909, 73291, 72693, 72115, 71555, 71011, 70484, 69971, 69473,
     68988, 68516, 68056, 67607, 67170, 66742, 66324, 65916, 65517, 65126, 64744, 64369,
     64002, 63642, 63289, 62943, 62603, 62269, 61942, 61620, 61303, 60992, 60686, 60386,
     60089, 59798, 59511, 59229, 58950, 58676, 58406, 58139, 57877, 57618, 57362, 57110,
     56862, 56616, 56374, 56135, 55899, 55666, 55436, 55208, 54983, 54761, 54541, 54324,
     54109, 53897, 53687, 53480, 53274, 53071, 52870, 52671, 52474, 52279, 52086, 51895,
     51706, 51519, 51333, 51150, 50968, 50787, 50609, 50432, 50256, 50082, 49910, 49739,
     49570, 49402, 49236, 49071, 48907, 48745, 48584, 48424, 48266, 48109, 47953, 47799,
     47645, 47493, 47342, 47192, 47043, 46895, 46749, 46603, 46459, 46315, 46173, 46032,
     45891, 45752, 45613, 45476, 45339, 45204, 45069, 44935, 44802, 44670, 44539, 44408,
     44279, 44150, 44022, 43895, 43768, 43643, 43518, 43394, 43271, 43148, 43026, 42905,
     42785, 42665, 42546, 42427, 42310, 42193, 42076, 41961, 41846, 41731, 41617, 41504,
     41392, 41280, 41168, 41057, 40947, 40838, 40728, 40620, 40512, 40405, 40298, 40191,
     40086, 39980, 39876, 39771, 39668, 39564, 39462, 39360, 39258, 39156, 39056, 38955,
     38856, 38756, 38657, 38559, 38461, 38363, 38266, 38169, 38073, 37977, 37882, 37787,
     37692, 37598, 37504, 37410, 37317, 37225, 37133, 37041, 36949, 36858, 36767, 36677,
     36587, 36498, 36408, 36319, 36231, 36143, 36055, 35967, 35880, 35793, 35707, 35621,
     35535, 35449, 35364, 35279, 35195, 35110, 35027, 34943, 34860, 34777, 34694, 34612,
     34529, 34448, 34366, 34285, 34204, 34123, 34043, 33963, 33883, 33803, 33724, 33645,
     33566, 33488, 33410, 33332, 33254, 33177, 33099, 33023, 32946, 32869, 32793, 32717,
     32642, 32566, 32491, 32416, 32341, 32267, 32193, 32118, 32045, 31971, 31898, 31825,
     31752, 31679, 31607, 31534, 31462, 31390, 31319, 31247, 31176, 31105, 31035, 30964,
     30894, 30823, 30753, 30684, 30614, 30545, 30476, 30407, 30338, 30269, 30201, 30133,
     30065, 29997, 29929, 29862, 29794, 29727, 29660, 29593, 29527, 29461, 29394, 29328,
     29262, 29197, 29131, 29066, 29000, 28935, 28871, 28806, 28741, 28677, 28613, 28549,
     28485, 28421, 28357, 28294, 28231, 28168, 28105, 28042, 27979, 27917, 27854, 27792,
     27730, 27668, 27606, 27545, 27483, 27422, 27361, 27300, 27239, 27178, 27117, 27057,
     26996, 26936, 26876, 26816, 26756, 26697, 26637, 26578, 26518, 26459, 26400, 26341,
     26282, 26224, 26165, 26107, 26048, 25990, 25932, 25874, 25817, 25759, 25701, 25644,
     25587, 25529, 25472, 25415, 25359, 25302, 25245, 25189, 25132, 25076, 25020, 24964,
     24908, 24852, 24796, 24741, 24685, 24630, 24575, 24519, 24464, 24409, 24355, 24300,
     24245, 24191, 24136, 24082, 24028, 23974, 23919, 23866, 23812, 23758, 23704, 23651,
     23597, 23544, 23491, 23438, 23385, 23332, 23279, 23226, 23173, 23121, 23068, 23016,
     22964, 22911, 22859, 22807, 22755, 22703, 22652, 22600, 22548, 22497, 22445, 22394,
     22343, 22292, 22241, 22190, 22139, 22088, 22037, 21986, 21936, 21885, 21835, 21785,
     21734, 21684, 21634, 21584, 21534, 21484, 21434, 21385, 21335, 21286, 21236, 21187,
     21137, 21088, 21039, 20990, 20941, 20892, 20843, 20794, 20746, 20697, 20649, 20600,
     20552, 20503, 20455, 20407, 20359, 20311, 20263, 20215, 20167, 20119, 20071, 20024,
     19976, 19928, 19881, 19834, 19786, 19739, 19692, 19645, 19598, 19551, 19504, 19457,
     19410, 19363, 19317, 19270, 19224, 19177, 19131, 19084, 19038, 18992, 18946, 18900,
     18853, 18808, 18762, 18716, 18670, 18624, 18578, 18533, 18487, 18442, 18396, 18351,
     18306, 18260, 18215, 18170, 18125, 18080, 18035, 17990, 17945, 17900, 17855, 17810,
     17766, 17721, 17677, 17632, 17588, 17543, 17499, 17455, 17410, 17366, 17322, 17278,
     17234, 17190, 17146, 17102, 17058, 17014, 16971, 16927, 16883, 16840, 16796, 16753,
     16709, 16666, 16622, 16579, 16536, 16493, 16450, 16406, 16363, 16320, 16277, 16235,
     16192, 16149, 16106, 16063, 16021, 15978, 15935, 15893, 15850, 15808, 15765, 15723,
     15681, 15638, 15596, 15554, 15512, 15470, 15428, 15386, 15344, 15302, 15260, 15218,
     15176, 15134, 15092, 15051, 15009, 14967, 14926, 14884, 14843, 14801, 14760, 14719,
     14677, 14636, 14595, 14553, 14512, 14471, 14430, 14389, 14348, 14307, 14266, 14225,
     14184, 14143, 14102, 14062, 14021, 13980, 13940, 13899, 13858, 13818, 13777, 13737,
     13696, 13656, 13616, 13575, 13535, 13495, 13454, 13414, 13374, 13334, 13294, 13254,
     13214, 13174, 13134, 13094, 13054, 13014, 12974, 12934, 12895, 12855, 12815, 12776,
     12736, 12696, 12657, 12617, 12578, 12538, 12499, 12459, 12420, 12381, 12341, 12302,
     12263, 12223, 12184, 12145, 12106, 12067, 12028, 11989, 11950, 11911, 11872, 11833,
     11794, 11755, 11716, 11677, 11638, 11600, 11561, 11522, 11483, 11445, 11406, 11367,
     11329, 11290, 11252, 11213, 11175, 11136, 11098, 11060, 11021, 10983, 10945, 10906,
     10868, 10830, 10792, 10753, 10715, 10677, 10639, 10601, 10563, 10525, 10487, 10449,
     10411, 10373, 10335, 10297, 10259, 10221, 10183, 10146, 10108, 10070, 10032, 9995,
     9957, 9919, 9882, 9844, 9806, 9769, 9731, 9694, 9656, 9619, 9581, 9544,
     9506, 9469, 9432, 9394, 9357, 9320, 9282, 9245, 9208, 9171, 9133, 9096,
     9059, 9022, 8985, 8948, 8911, 8873, 8836, 8799, 8762, 8725, 8688, 8651,
     8615, 8578, 8541, 8504, 8467, 8430, 8393, 8357, 8320, 8283, 8246, 8209,
     8173, 8136, 8099, 8063, 8026, 7989, 7953, 7916, 7880, 7843, 7807, 7770,
     7734, 7697, 7661, 7624, 7588, 7551, 7515, 7479, 7442, 7406, 7369, 7333,
     7297, 7261, 7224, 7188, 7152, 7116, 7079, 7043, 7007, 6971, 6935, 6899,
     6862, 6826, 6790, 6754, 6718, 6682, 6646, 6610, 6574, 6538, 6502, 6466,
     6430, 6394, 6358, 6322, 6286, 6250, 6215, 6179, 6143, 6107, 6071, 6035,
     6000, 5964, 5928, 5892, 5857, 5821, 5785, 5749, 5714, 5678, 5642, 5607,
     5571, 5535, 5500, 5464, 5429, 5393, 5357, 5322, 5286, 5251, 5215, 5180,
     5144, 5109, 5073, 5038, 5002, 4967, 4931, 4896, 4860, 4825, 4789, 4754,
     4719, 4683, 4648, 4613, 4577, 4542, 4507, 4471, 4436, 4401, 4365, 4330,
     4295, 4259, 4224, 4189, 4154, 4118, 4083, 4048, 4013, 3978, 3942, 3907,
     3872, 3837, 3802, 3766, 3731, 3696, 3661, 3626, 3591, 3556, 3521, 3486,
     3450, 3415, 3380, 3345, 3310, 3275, 3240, 3205, 3170, 3135, 3100, 3065,
     3030, 2995, 2960, 2925, 2890, 2855, 2820, 2785, 2750, 2715, 2680, 2645,
     2610, 2575, 2540, 2505, 2470, 2436, 2401, 2366, 2331, 2296, 2261, 2226,
     2191, 2156, 2121, 2087, 2052, 2017, 1982, 1947, 1912, 1877, 1843, 1808,
     1773, 1738, 1703, 1668, 1634, 1599, 1564, 1529, 1494, 1460, 1425, 1390,
     1355, 1320, 1286, 1251, 1216, 1181, 1146, 1112, 1077, 1042, 1007, 973,
     938, 903, 868, 834, 799, 764, 729, 694, 660, 625, 590, 555,
     521, 486, 451, 416, 382, 347, 312, 277, 243, 208, 173, 138,
     104, 69, 34, 0, -35, -70, -105, -139, -174, -209, -244, -278,
     -313, -348, -383, -417, -452, -487, -522, -556, -591, -626, -661, -695,
     -730, -765, -800, -835, -869, -904, -939, -974, -1008, -1043, -1078, -1113,
     -1147, -1182, -1217, -1252, -1287, -1321, -1356, -1391, -1426, -1461, -1495, -1530,
     -1565, -1600, -1635, -1669, -1704, -1739, -1774, -1809, -1844, -1878, -1913, -1948,
     -1983, -2018, -2053, -2088, -2122, -2157, -2192, -2227, -2262, -2297, -2332, -2367,
     -2402, -2437, -2471, -2506, -2541, -2576, -2611, -2646, -2681, -2716, -2751, -2786,
     -2821, -2856, -2891, -2926, -2961, -2996, -3031, -3066, -3101, -3136, -3171, -3206,
     -3241, -3276, -3311, -3346, -3381, -3416, -3451, -3487, -3522, -3557, -3592, -3627,
     -3662, -3697, -3732, -3767, -3803, -3838, -3873, -3908, -3943, -3979, -4014, -4049,
     -4084, -4119, -4155, -4190, -4225, -4260, -4296, -4331, -4366, -4402, -4437, -4472,
     -4508, -4543, -4578, -4614, -4649, -4684, -4720, -4755, -4790, -4826, -4861, -4897,
     -4932, -4968, -5003, -5039, -5074, -5110, -5145, -5181, -5216, -5252, -5287, -5323,
     -5358, -5394, -5430, -5465, -5501, -5536, -5572, -5608, -5643, -5679, -5715, -5750,
     -5786, -5822, -5858, -5893, -5929, -5965, -6001, -6036, -6072, -6108, -6144, -6180,
     -6216, -6251, -6287, -6323, -6359, -6395, -6431, -6467, -6503, -6539, -6575, -6611,
     -6647, -6683, -6719, -6755, -6791, -6827, -6863, -6900, -6936, -6972, -7008, -7044,
     -7080, -7117, -7153, -7189, -7225, -7262, -7298, -7334, -7370, -7407, -7443, -7480,
     -7516, -7552, -7589, -7625, -7662, -7698, -7735, -7771, -7808, -7844, -7881, -7917,
     -7954, -7990, -8027, -8064, -8100, -8137, -8174, -8210, -8247, -8284, -8321, -8358,
     -8394, -8431, -8468, -8505, -8542, -8579, -8616, -8652, -8689, -8726, -8763, -8800,
     -8837, -8874, -8912, -8949, -8986, -9023, -9060, -9097, -9134, -9172, -9209, -9246,
     -9283, -9321, -9358, -9395, -9433, -9470, -9507, -9545, -9582, -9620, -9657, -9695,
     -9732, -9770, -9807, -9845, -9883, -9920, -9958, -9996, -10033, -10071, -10109, -10147,
     -10184, -10222, -10260, -10298, -10336, -10374, -10412, -10450, -10488, -10526, -10564, -10602,
     -10640, -10678, -10716, -10754, -10793, -10831, -10869, -10907, -10946, -10984, -11022, -11061,
     -11099, -11137, -11176, -11214, -11253, -11291, -11330, -11368, -11407, -11446, -11484, -11523,
     -11562, -11601, -11639, -11678, -11717, -11756, -11795, -11834, -11873, -11912, -11951, -11990,
     -12029, -12068, -12107, -12146, -12185, -12224, -12264, -12303, -12342, -12382, -12421, -12460,
     -12500, -12539, -12579, -12618, -12658, -12697, -12737, -12777, -12816, -12856, -12896, -12935,
     -12975, -13015, -13055, -13095, -13135, -13175, -13215, -13255, -13295, -13335, -13375, -13415,
     -13455, -13496, -13536, -13576, -13617, -13657, -13697, -13738, -13778, -13819, -13859, -13900,
     -13941, -13981, -14022, -14063, -14103, -14144, -14185, -14226, -14267, -14308, -14349, -14390,
     -14431, -14472, -14513, -14554, -14596, -14637, -14678, -14720, -14761, -14802, -14844, -14885,
     -14927, -14968, -15010, -15052, -15093, -15135, -15177, -15219, -15261, -15303, -15345, -15387,
     -15429, -15471, -15513, -15555, -15597, -15639, -15682, -15724, -15766, -15809, -15851, -15894,
     -15936, -15979, -16022, -16064, -16107, -16150, -16193, -16236, -16278, -16321, -16364, -16407,
     -16451, -16494, -16537, -16580, -16623, -16667, -16710, -16754, -16797, -16841, -16884, -16928,
     -16972, -17015, -17059, -17103, -17147, -17191, -17235, -17279, -17323, -17367, -17411, -17456,
     -17500, -17544, -17589, -17633, -17678, -17722, -17767, -17811, -17856, -17901, -17946, -17991,
     -18036, -18081, -18126, -18171, -18216, -18261, -18307, -18352, -18397, -18443, -18488, -18534,
     -18579, -18625, -18671, -18717, -18763, -18809, -18854, -18901, -18947, -18993, -19039, -19085,
     -19132, -19178, -19225, -19271, -19318, -19364, -19411, -19458, -19505, -19552, -19599, -19646,
     -19693, -19740, -19787, -19835, -19882, -19929, -19977, -20025, -20072, -20120, -20168, -20216,
     -20264, -20312, -20360, -20408, -20456, -20504, -20553, -20601, -20650, -20698, -20747, -20795,
     -20844, -20893, -20942, -20991, -21040, -21089, -21138, -21188, -21237, -21287, -21336, -21386,
     -21435, -21485, -21535, -21585, -21635, -21685, -21735, -21786, -21836, -21886, -21937, -21987,
     -22038, -22089, -22140, -22191, -22242, -22293, -22344, -22395, -22446, -22498, -22549, -22601,
     -22653, -22704, -22756, -22808, -22860, -22912, -22965, -23017, -23069, -23122, -23174, -23227,
     -23280, -23333, -23386, -23439, -23492, -23545, -23598, -23652, -23705, -23759, -23813, -23867,
     -23920, -23975, -24029, -24083, -24137, -24192, -24246, -24301, -24356, -24410, -24465, -24520,
     -24576, -24631, -24686, -24742, -24797, -24853, -24909, -24965, -25021, -25077, -25133, -25190,
     -25246, -25303, -25360, -25416, -25473, -25530, -25588, -25645, -25702, -25760, -25818, -25875,
     -25933, -25991, -26049, -26108, -26166, -26225, -26283, -26342, -26401, -26460, -26519, -26579,
     -26638, -26698, -26757, -26817, -26877, -26937, -26997, -27058, -27118, -27179, -27240, -27301,
     -27362, -27423, -27484, -27546, -27607, -27669, -27731, -27793, -27855, -27918, -27980, -28043,
     -28106, -28169, -28232, -28295, -28358, -28422, -28486, -28550, -28614, -28678, -28742, -28807,
     -28872, -28936, -29001, -29067, -29132, -29198, -29263, -29329, -29395, -29462, -29528, -29594,
     -29661, -29728, -29795, -29863, -29930, -29998, -30066, -30134, -30202, -30270, -30339, -30408,
     -30477, -30546, -30615, -30685, -30754, -30824, -30895, -30965, -31036, -31106, -31177, -31248,
     -31320, -31391, -31463, -31535, -31608, -31680, -31753, -31826, -31899, -31972, -32046, -32119,
     -32194, -32268, -32342, -32417, -32492, -32567, -32643, -32718, -32794, -32870, -32947, -33024,
     -33100, -33178, -33255, -33333, -33411, -33489, -33567, -33646, -33725, -33804, -33884, -33964,
     -34044, -34124, -34205, -34286, -34367, -34449, -34530, -34613, -34695, -34778, -34861, -34944,
     -35028, -35111, -35196, -35280, -35365, -35450, -35536, -35622, -35708, -35794, -35881, -35968,
     -36056, -36144, -36232, -36320, -36409, -36499, -36588, -36678, -36768, -36859, -36950, -37042,
     -37134, -37226, -37318, -37411, -37505, -37599, -37693, -37788, -37883, -37978, -38074, -38170,
     -38267, -38364, -38462, -38560, -38658, -38757, -38857, -38956, -39057, -39157, -39259, -39361,
     -39463, -39565, -39669, -39772, -39877, -39981, -40087, -40192, -40299, -40406, -40513, -40621,
     -40729, -40839, -40948, -41058, -41169, -41281, -41393, -41505, -41618, -41732, -41847, -41962,
     -42077, -42194, -42311, -42428, -42547, -42666, -42786, -42906, -43027, -43149, -43272, -43395,
     -43519, -43644, -43769, -43896, -44023, -44151, -44280, -44409, -44540, -44671, -44803, -44936,
     -45070, -45205, -45340, -45477, -45614, -45753, -45892, -46033, -46174, -46316, -46460, -46604,
     -46750, -46896, -47044, -47193, -47343, -47494, -47646, -47800, -47954, -48110, -48267, -48425,
     -48585, -48746, -48908, -49072, -49237, -49403, -49571, -49740, -49911, -50083, -50257, -50433,
     -50610, -50788, -50969, -51151, -51334, -51520, -51707, -51896, -52087, -52280, -52475, -52672,
     -52871, -53072, -53275, -53481, -53688, -53898, -54110, -54325, -54542, -54762, -54984, -55209,
     -55437, -55667, -55900, -56136, -56375, -56617, -56863, -57111, -57363, -57619, -57878, -58140,
     -58407, -58677, -58951, -59230, -59512, -59799, -60090, -60387, -60687, -60993, -61304, -61621,
     -61943, -62270, -62604, -62944, -63290, -63643, -64003, -64370, -64745, -65127, -65518, -65917,
     -66325, -66743, -67171, -67608, -68057, -68517, -68989, -69474, -69972, -70485, -71012, -71556,
     -72116, -72694, -73292, -73910, -74551, -75215, -75906, -76624, -77372, -78153, -78970, -79826,
     -80726, -81674, -82675, -83737, -84867, -86075, -87371, -88770, -90290, -91955, -93794, -95848,
     -98177, -100863, -104039, -107925, -112931, -119983, -132033
  >>

RECURSIVE ExpectedScoreSearch(_, _, _)
\* The largest g in lo..hi with d <= ExpectedScoreThreshold[g] (0 when none).
ExpectedScoreSearch(d, lo, hi) ==
  IF lo = hi THEN lo
  ELSE LET mid == (lo + hi + 1) \div 2
       IN IF d <= ExpectedScoreThreshold[mid]
          THEN ExpectedScoreSearch(d, mid, hi)
          ELSE ExpectedScoreSearch(d, lo, mid - 1)

\* (mutant) rating_difference is not used: every contest is expected even
expected_score_even(rating_difference) == ScoreScale \div 2

\* (mutant) the sign of rating_difference is lost: 10 ** (abs(d) / 400)
expected_score_abs(rating_difference) ==
  ExpectedScoreSearch(IF rating_difference < 0 THEN -rating_difference
                      ELSE rating_difference, 0, ScoreScale - 1)

\* expected_score = 1 / (1 + 10 ** (rating_difference / 400)), in 1/ScoreScale,
\* truncated: the true value is in [expected_score, expected_score + 1) and is
\* exactly expected_score only when rating_difference = 0.
expected_score(rating_difference) ==
  ExpectedScoreSearch(rating_difference, 0, ScoreScale - 1)

\* round(new_elo_rating, number_of_decimals).  x is the unrounded rating in
\* hundredths computed from the truncated expected_score, so the true value
\* lies in (x - 1, x]; it is never a tie of the rounding (10 ** (d / 400) is
\* irrational for d # 0), hence a last digit 5 rounds down.
\* (mutant) the rating is not rounded
round_none(x) == x

\* (mutant) the rating is rounded up to the next tenth
round_ceiling(x) ==
  LET step == RatingScale \div (10 ^ number_of_decimals)
      r == x % step
  IN IF r = 0 THEN x ELSE x - r + step

round(x) ==
  LET step == RatingScale \div (10 ^ number_of_decimals)
      r == x % step
  IN IF 2 * r <= step THEN x - r ELSE x - r + step

\* (mutant) the score argument is dropped and the default score=1 is used
calculate_elo_rating_default_score(subject_elo_rating, agent_elo_rating, score) ==
  LET rating_difference == agent_elo_rating - subject_elo_rating
      new_elo_rating == subject_elo_rating
          + (k_factor * RatingScale * (Win - expected_score(rating_difference)))
              \div ScoreScale
  IN round(new_elo_rating)

\* (mutant) k_factor * (expected_score - score): the sign of the swing is wrong
calculate_elo_rating_swapped(subject_elo_rating, agent_elo_rating, score) ==
  LET rating_difference == agent_elo_rating - subject_elo_rating
      new_elo_rating == subject_elo_rating
          + (k_factor * RatingScale * (expected_score(rating_difference) - score))
              \div ScoreScale
  IN round(new_elo_rating)

calculate_elo_rating(subject_elo_rating, agent_elo_rating, score) ==
  LET rating_difference == agent_elo_rating - subject_elo_rating
      new_elo_rating == subject_elo_rating
          + (k_factor * RatingScale * (score - expected_score(rating_difference)))
              \div ScoreScale
  IN round(new_elo_rating)

\* ------------------------------------------------- the rating dictionary
\* id_to_elo_rating is a defaultdict(lambda: 1000): a sequence of
\* [id, rating] in insertion order, which is the order sorted() starts from.
Keys(d) == {d[i].id : i \in 1..Len(d)}

IndexOf(d, key) == CHOOSE i \in 1..Len(d) : d[i].id = key

\* (mutant) a new key starts from the rating of the entry inserted last
missing_copy_last(d, key) ==
  IF key \in Keys(d) THEN d
  ELSE Append(d, [id |-> key,
                  rating |-> IF d = <<>> THEN default_elo_rating
                             ELSE d[Len(d)].rating])

\* defaultdict.__missing__: reading an absent key inserts it with the default
missing(d, key) ==
  IF key \in Keys(d) THEN d
  ELSE Append(d, [id |-> key, rating |-> default_elo_rating])

\* d[key], read through the defaultdict
getitem(d, key) == missing(d, key)[IndexOf(missing(d, key), key)].rating

\* d[key] = value
setitem(d, key, value) ==
  IF key \in Keys(d) THEN [d EXCEPT ![IndexOf(d, key)].rating = value]
  ELSE Append(d, [id |-> key, rating |-> value])

\* -------------------------------------------------------- update_elo_rating
\* (mutant) the loser's update reads the winner's rating after its update
update_elo_rating_chained(d, winner_id, loser_id, winner_score, loser_score) ==
  LET d1 == missing(d, winner_id)
      current_winner_rating == getitem(d1, winner_id)
      d2 == missing(d1, loser_id)
      current_loser_rating == getitem(d2, loser_id)
      d3 == setitem(d2, winner_id,
              calculate_elo_rating(current_winner_rating,
                                   current_loser_rating, winner_score))
  IN setitem(d3, loser_id,
       calculate_elo_rating(current_loser_rating,
                            getitem(d3, winner_id), loser_score))

\* (mutant) the dictionary passed is not used: the update starts from a new one
update_elo_rating_new_dict(d, winner_id, loser_id, winner_score, loser_score) ==
  LET d1 == missing(<<>>, winner_id)
      current_winner_rating == getitem(d1, winner_id)
      d2 == missing(d1, loser_id)
      current_loser_rating == getitem(d2, loser_id)
      d3 == setitem(d2, winner_id,
              calculate_elo_rating(current_winner_rating,
                                   current_loser_rating, winner_score))
  IN setitem(d3, loser_id,
       calculate_elo_rating(current_loser_rating,
                            current_winner_rating, loser_score))

update_elo_rating(d, winner_id, loser_id, winner_score, loser_score) ==
  LET d1 == missing(d, winner_id)
      current_winner_rating == getitem(d1, winner_id)
      d2 == missing(d1, loser_id)
      current_loser_rating == getitem(d2, loser_id)
      d3 == setitem(d2, winner_id,
              calculate_elo_rating(current_winner_rating,
                                   current_loser_rating, winner_score))
  IN setitem(d3, loser_id,
       calculate_elo_rating(current_loser_rating,
                            current_winner_rating, loser_score))

\* ------------------------------------ get_ranking_from_elo_rating_dictionary
\* sorted(items, key=rating, reverse=True) is stable: entries of equal rating
\* keep their insertion order.  The position of subject_id in the sorted list
\* is one more than the number of entries sorted before it.
\* (mutant) sorted without reverse=True: the lowest rating is ranked first
get_ranking_ascending(input_dict, subject_id) ==
  LET p == IndexOf(input_dict, subject_id)
  IN 1 + Cardinality({q \in 1..Len(input_dict) :
          \/ input_dict[q].rating < input_dict[p].rating
          \/ input_dict[q].rating = input_dict[p].rating /\ q < p})

\* (mutant) an unstable sort: of equal ratings the one inserted last is first
get_ranking_last_inserted_first(input_dict, subject_id) ==
  LET p == IndexOf(input_dict, subject_id)
  IN 1 + Cardinality({q \in 1..Len(input_dict) :
          \/ input_dict[q].rating > input_dict[p].rating
          \/ input_dict[q].rating = input_dict[p].rating /\ q > p})

get_ranking_from_elo_rating_dictionary(input_dict, subject_id) ==
  LET p == IndexOf(input_dict, subject_id)
  IN 1 + Cardinality({q \in 1..Len(input_dict) :
          \/ input_dict[q].rating > input_dict[p].rating
          \/ input_dict[q].rating = input_dict[p].rating /\ q < p})

\* ------------------------------------------------------------------ state
VARIABLES
  function_name,     \* "rating": iterate_elo_rating_calculation_for_dataframe,
                     \* "score":  iterate_elo_score_calculation_for_dataframe
  tie_column,        \* the tie_column argument: None or the name of a column
  tie_has_NA,        \* the tie column holds a pandas.NA: astype(bool) raises
  rows,              \* the rows of the dataframe consumed so far, in order
  pc,                \* "iterating", "done" (returned), or the exception raised
  id_to_elo_rating,
  index_to_elo_rating_and_meta_data,
  all_indexes,       \* the value the next next(all_indexes) yields
  index_stop,        \* the stop of the range all_indexes iterates over
  total_match_number,
  run,               \* the number of the call of the driver, counted from 1
  first_run,         \* the dataframe and the ledger of the first call
  arguments,         \* the arguments of a call of a function called alone
  result,            \* what that call returns, or the exception it raises
  sheets,            \* the number of sheets generate_elo_scores is given
  sheet,             \* the number of sheets read so far
  data,              \* the sheet read last: its protocol and its rows
  all_elo_df,        \* the ledger of the sheet read last, as one frame
  id_to_elo_df,      \* the final standings of the sheet read last
  output_dir         \* the sheets whose csv file is written

\* The state of the callers of the drivers and of update_elo_rating
caller_vars == <<run, first_run, arguments, result, sheets, sheet, data,
                 all_elo_df, id_to_elo_df, output_dir>>

vars == <<function_name, tie_column, tie_has_NA, rows, pc, id_to_elo_rating,
          index_to_elo_rating_and_meta_data, all_indexes, index_stop,
          total_match_number, caller_vars>>

NoRun == [rows |-> <<>>, ledger |-> <<>>, another_between |-> FALSE]
NoArguments == [winner_id |-> None, loser_id |-> None,
                id_to_elo_rating_type |-> None, id_to_elo_rating |-> <<>>]
NoData == [protocol |-> None, rows |-> <<>>]
NoResult == [raises |-> None, value |-> <<>>]

\* A driver called once, by a caller that is not modelled
NoCaller ==
  /\ run = 1
  /\ first_run = NoRun
  /\ arguments = NoArguments
  /\ result = NoResult
  /\ sheets = 0
  /\ sheet = 0
  /\ data = NoData
  /\ all_elo_df = <<>>
  /\ id_to_elo_df = <<>>
  /\ output_dir = {}

\* ------------------------------------------------------------ the tie column
\* Series.astype(bool) of one cell: bool(x); bool(float("nan")) is True
astype_bool(cell) == cell \notin {"False", "np.False_"}

\* pd.isna(x)
isna(cell) == cell \in {"NaN", "NA"}

\* x has an .any() method (numpy scalars have, Python objects have not)
has_any(cell) == cell \in {"np.True_", "np.False_"}

\* Lines 182-190: the try succeeds when the column exists and bool() accepts
\* every cell; otherwise copied_dataframe is the unchanged copy.
coerced == tie_column # None /\ ~tie_has_NA

\* copied_dataframe[tie_column][i]
copied_cell(cell) ==
  IF coerced THEN (IF astype_bool(cell) THEN "np.True_" ELSE "np.False_")
  ELSE cell

WinLoss == [error |-> FALSE, winner_score |-> Win, loser_score |-> Loss]
Tie == [error |-> FALSE, winner_score |-> Draw, loser_score |-> Draw]
AttributeError == [error |-> TRUE, winner_score |-> Loss, loser_score |-> Loss]

\* Lines 202-216 of the rating driver
rating_driver_scores(cell) ==
  IF tie_column # None
  THEN IF isna(copied_cell(cell)) THEN WinLoss
       ELSE IF ~has_any(copied_cell(cell)) THEN AttributeError
       ELSE IF ~astype_bool(copied_cell(cell)) THEN WinLoss
       ELSE Tie
  ELSE WinLoss

\* Lines 433-445 of the score driver
score_driver_scores(cell) ==
  IF tie_column # None
  THEN IF isna(cell) THEN WinLoss ELSE Tie
  ELSE WinLoss

driver_scores(cell) ==
  IF function_name = "rating" THEN rating_driver_scores(cell)
  ELSE score_driver_scores(cell)

\* The cells a row of the configured tie column may hold
TieCells ==
  IF tie_column = None THEN {Unread}
  ELSE IF tie_has_NA THEN UncoercibleCells
  ELSE CoercibleCells

RowBound == IF tie_column = None THEN MaxRows ELSE MaxTieRows

\* ---------------------------------------------------------- ledger entries
\* Lines 229-237 (458-465): the entry from the winner's perspective, built
\* after update_elo_rating; d is the dictionary after the update.
\* (mutant) the winner's entry is ranked before the winner's update is written
winner_data_ranked_before_update(match_number, winner_id, loser_id, current_winner_rating, d, winner_score) ==
  LET before == setitem(d, winner_id, current_winner_rating)
      common == [total_match_number |-> match_number,
                 subject_id |-> winner_id,
                 agent_id |-> loser_id,
                 original_elo_rating |-> current_winner_rating,
                 updated_elo_rating |-> getitem(d, winner_id),
                 win_draw_loss |-> winner_score,
                 subject_ranking |->
                   get_ranking_from_elo_rating_dictionary(before, winner_id),
                 agent_ranking |->
                   get_ranking_from_elo_rating_dictionary(before, loser_id)]
  IN IF function_name = "rating" THEN ("pairing_index" :> 0) @@ common
     ELSE common

winner_data(match_number, winner_id, loser_id, current_winner_rating, d, winner_score) ==
  LET common == [total_match_number |-> match_number,
                 subject_id |-> winner_id,
                 agent_id |-> loser_id,
                 original_elo_rating |-> current_winner_rating,
                 updated_elo_rating |-> getitem(d, winner_id),
                 win_draw_loss |-> winner_score,
                 subject_ranking |->
                   get_ranking_from_elo_rating_dictionary(d, winner_id),
                 agent_ranking |->
                   get_ranking_from_elo_rating_dictionary(d, loser_id)]
  IN IF function_name = "rating" THEN ("pairing_index" :> 0) @@ common
     ELSE common

\* (mutant) total_match_number is incremented between the two entries
loser_data_next_match(match_number, winner_id, loser_id, current_loser_rating, d, loser_score) ==
  LET common == [total_match_number |-> match_number + 1,
                 subject_id |-> loser_id,
                 agent_id |-> winner_id,
                 original_elo_rating |-> current_loser_rating,
                 updated_elo_rating |-> getitem(d, loser_id),
                 win_draw_loss |-> loser_score,
                 subject_ranking |->
                   get_ranking_from_elo_rating_dictionary(d, loser_id),
                 agent_ranking |->
                   get_ranking_from_elo_rating_dictionary(d, winner_id)]
  IN IF function_name = "rating" THEN ("pairing_index" :> 1) @@ common
     ELSE common

\* Lines 243-251 (472-479): the entry from the loser's perspective
loser_data(match_number, winner_id, loser_id, current_loser_rating, d, loser_score) ==
  LET common == [total_match_number |-> match_number,
                 subject_id |-> loser_id,
                 agent_id |-> winner_id,
                 original_elo_rating |-> current_loser_rating,
                 updated_elo_rating |-> getitem(d, loser_id),
                 win_draw_loss |-> loser_score,
                 subject_ranking |->
                   get_ranking_from_elo_rating_dictionary(d, loser_id),
                 agent_ranking |->
                   get_ranking_from_elo_rating_dictionary(d, winner_id)]
  IN IF function_name = "rating" THEN ("pairing_index" :> 1) @@ common
     ELSE common

\* ----------------------------------------------------------------- actions
\* Construction: lines 163-190 (406-421).  The dataframe is an input; its
\* rows are drawn as the loop reaches them, and the one thing the code
\* learns of the whole column beforehand, whether astype(bool) raised, is
\* drawn here; the score driver has no such step, and reads a pandas.NA as
\* it reads a NaN, so no column with pandas.NA is drawn for it.
Init ==
  /\ function_name \in {"rating", "score"}
  /\ tie_column \in {None, "match_is_tie"}
  /\ tie_has_NA \in IF tie_column # None /\ function_name = "rating"
                    THEN BOOLEAN ELSE {FALSE}
  /\ rows = <<>>
  /\ pc = "iterating"
  /\ id_to_elo_rating = <<>>
  /\ index_to_elo_rating_and_meta_data = <<>>
  /\ all_indexes = 0
  /\ index_stop = AllIndexesStop
  /\ total_match_number = 1
  /\ NoCaller

\* The same run with range(0, 99999) scaled down to range(0, ScaledIndexStop)
InitScaled ==
  /\ function_name = "rating"
  /\ tie_column = None
  /\ tie_has_NA = FALSE
  /\ rows = <<>>
  /\ pc = "iterating"
  /\ id_to_elo_rating = <<>>
  /\ index_to_elo_rating_and_meta_data = <<>>
  /\ all_indexes = 0
  /\ index_stop = ScaledIndexStop
  /\ total_match_number = 1
  /\ NoCaller

\* One iteration of the for loop, lines 192-256 (423-484), on a row that
\* dropna(subset=winner_id_column) keeps.  An exception ends the run where
\* it is raised, with the assignments made until then.
Contest(winner_id, loser_id, cell) ==
  /\ pc = "iterating"
  /\ Len(rows) < RowBound
  /\ rows' = Append(rows, [winner |-> winner_id, loser |-> loser_id,
                           tie |-> cell])
  /\ LET d1 == missing(id_to_elo_rating, winner_id)
         current_winner_rating == getitem(d1, winner_id)
         d2 == missing(d1, loser_id)
         current_loser_rating == getitem(d2, loser_id)
         scores == driver_scores(cell)
         d3 == update_elo_rating(d2, winner_id, loser_id,
                                 scores.winner_score, scores.loser_score)
         winner_index == all_indexes
         loser_index == all_indexes + 1
         winner_entry == winner_data(total_match_number, winner_id, loser_id,
                           current_winner_rating, d3, scores.winner_score)
         loser_entry == loser_data(total_match_number, winner_id, loser_id,
                          current_loser_rating, d3, scores.loser_score)
     IN IF scores.error
        THEN /\ pc' = "AttributeError"
             /\ id_to_elo_rating' = d2
             /\ UNCHANGED <<index_to_elo_rating_and_meta_data, all_indexes,
                            total_match_number>>
        ELSE IF winner_index >= index_stop
        THEN /\ pc' = "StopIteration"
             /\ id_to_elo_rating' = d3
             /\ UNCHANGED <<index_to_elo_rating_and_meta_data, all_indexes,
                            total_match_number>>
        ELSE IF loser_index >= index_stop
        THEN /\ pc' = "StopIteration"
             /\ id_to_elo_rating' = d3
             /\ index_to_elo_rating_and_meta_data' =
                  (winner_index :> winner_entry)
                    @@ index_to_elo_rating_and_meta_data
             /\ all_indexes' = loser_index
             /\ UNCHANGED total_match_number
        ELSE /\ pc' = "iterating"
             /\ id_to_elo_rating' = d3
             /\ index_to_elo_rating_and_meta_data' =
                  (loser_index :> loser_entry) @@ (winner_index :> winner_entry)
                    @@ index_to_elo_rating_and_meta_data
             /\ all_indexes' = loser_index + 1
             /\ total_match_number' = total_match_number + 1
  /\ UNCHANGED <<function_name, tie_column, tie_has_NA, index_stop,
                 caller_vars>>

\* A row whose winner id is missing: dropna(subset=winner_id_column) removes
\* it before the loop, which reads none of its other cells.
SkipRow ==
  /\ pc = "iterating"
  /\ Len(rows) < RowBound
  /\ rows' = Append(rows, [winner |-> NaN, loser |-> Unread, tie |-> Unread])
  /\ UNCHANGED <<function_name, tie_column, tie_has_NA, pc, id_to_elo_rating,
                 index_to_elo_rating_and_meta_data, all_indexes, index_stop,
                 total_match_number, caller_vars>>

\* The dataframe has no further row: the loop ends and the driver returns
\* index_to_elo_rating_and_meta_data (line 258).  A column that made
\* astype(bool) raise holds its pandas.NA in one of the rows.
Finish ==
  /\ pc = "iterating"
  /\ tie_has_NA =>
       \E i \in 1..Len(rows) : rows[i].tie = "NA" \/ rows[i].winner = NaN
  /\ pc' = "done"
  /\ UNCHANGED <<function_name, tie_column, tie_has_NA, rows, id_to_elo_rating,
                 index_to_elo_rating_and_meta_data, all_indexes, index_stop,
                 total_match_number, caller_vars>>

Next ==
  \/ \E winner_id \in Subjects, loser_id \in Subjects \cup {NaN},
        cell \in TieCells : Contest(winner_id, loser_id, cell)
  \/ SkipRow
  \/ Finish

Spec == Init /\ [][Next]_vars

SpecScaled == InitScaled /\ [][Next]_vars

\* The drivers on a stream of pairwise contests: every row that has a winner
\* names two different subjects
NextPairs ==
  \/ \E winner_id \in Subjects, cell \in TieCells :
       \E loser_id \in Subjects \ {winner_id} :
          Contest(winner_id, loser_id, cell)
  \/ SkipRow
  \/ Finish

SpecPairs == Init /\ [][NextPairs]_vars

\* ------------------------------------------------------- reading the ledger
\* The rows of the dataframe that dropna(subset=winner_id_column) keeps
KeptRow(r) == r.winner # NaN
ValidRows == SelectSeq(rows, KeptRow)

\* Every row consumed so far names two different ids: a contest of a pair
PairwiseRows == \A i \in 1..Len(rows) : rows[i].winner # rows[i].loser

\* The contests both of whose entries are in the ledger, and their entries
Contests == 1..(Cardinality(DOMAIN index_to_elo_rating_and_meta_data) \div 2)
WinnerEntry(k) == index_to_elo_rating_and_meta_data[2 * k - 2]
LoserEntry(k) == index_to_elo_rating_and_meta_data[2 * k - 1]

\* ------------------------------------------ a driver as a function of a frame
\* (mutant) the dictionary is a module-level object: a call finds in it what
\* the call before left
id_to_elo_rating_kept == id_to_elo_rating

\* Line 167 (409): a call builds its own dictionary, empty
new_id_to_elo_rating == <<>>

\* (mutant) the match counter is a module-level object: it is not set back
driver_locals_kept_match_number(d) ==
  [pc |-> "iterating", id_to_elo_rating |-> d,
   index_to_elo_rating_and_meta_data |-> <<>>, all_indexes |-> 0,
   total_match_number |-> total_match_number]

\* The locals of a driver after lines 167-178 (409-416), for the dictionary d
\* that line 167 (409) built.
driver_locals(d) ==
  [pc |-> "iterating", id_to_elo_rating |-> d,
   index_to_elo_rating_and_meta_data |-> <<>>, all_indexes |-> 0,
   total_match_number |-> 1]

\* One iteration of the for loop of lines 192-256 (423-484) on the locals s,
\* for the row of the dataframe that comes next; dropna has removed the row
\* whose winner id is missing.
loop_body(s, row) ==
  IF ~KeptRow(row) \/ s.pc # "iterating" THEN s
  ELSE
    LET d1 == missing(s.id_to_elo_rating, row.winner)
        current_winner_rating == getitem(d1, row.winner)
        d2 == missing(d1, row.loser)
        current_loser_rating == getitem(d2, row.loser)
        scores == driver_scores(row.tie)
        d3 == update_elo_rating(d2, row.winner, row.loser,
                                scores.winner_score, scores.loser_score)
        winner_index == s.all_indexes
        loser_index == s.all_indexes + 1
        winner_entry == winner_data(s.total_match_number, row.winner,
                          row.loser, current_winner_rating, d3,
                          scores.winner_score)
        loser_entry == loser_data(s.total_match_number, row.winner, row.loser,
                         current_loser_rating, d3, scores.loser_score)
    IN IF scores.error
       THEN [s EXCEPT !.pc = "AttributeError", !.id_to_elo_rating = d2]
       ELSE IF winner_index >= index_stop
       THEN [s EXCEPT !.pc = "StopIteration", !.id_to_elo_rating = d3]
       ELSE IF loser_index >= index_stop
       THEN [s EXCEPT !.pc = "StopIteration", !.id_to_elo_rating = d3,
                      !.index_to_elo_rating_and_meta_data =
                         (winner_index :> winner_entry) @@ @,
                      !.all_indexes = loser_index]
       ELSE [s EXCEPT !.id_to_elo_rating = d3,
                      !.index_to_elo_rating_and_meta_data =
                         (loser_index :> loser_entry)
                           @@ (winner_index :> winner_entry) @@ @,
                      !.all_indexes = loser_index + 1,
                      !.total_match_number = @ + 1]

RECURSIVE for_loop(_, _)
\* The for loop of line 192 (423) over the rows of a dataframe, in order
for_loop(s, dataframe) ==
  IF dataframe = <<>> THEN s
  ELSE for_loop(loop_body(s, Head(dataframe)), Tail(dataframe))

\* ------------------------------------------------ the driver called again
\* __reward_competition calls the rating driver once for each cage of a
\* sheet, one call after the other, on the rows of that cage
\* (elo_score.py lines 101-110) with a tie column of booleans (lines 68-70)
\* and a loser that is not the winner (lines 91-94).  A run is one call.
InitRuns ==
  /\ function_name = "rating"
  /\ tie_column = "match_is_tie"
  /\ tie_has_NA = FALSE
  /\ rows = <<>>
  /\ pc = "iterating"
  /\ id_to_elo_rating = <<>>
  /\ index_to_elo_rating_and_meta_data = <<>>
  /\ all_indexes = 0
  /\ index_stop = AllIndexesStop
  /\ total_match_number = 1
  /\ NoCaller

\* The call has returned and the driver is called again: lines 163-190 of
\* rank.py run anew.  first_run keeps what the first call was given and what
\* it returned, and whether a call on another dataframe came after it.
NextRun ==
  /\ pc = "done"
  /\ run < MaxRuns
  /\ run' = run + 1
  /\ first_run' =
       IF run = 1
       THEN [rows |-> rows, ledger |-> index_to_elo_rating_and_meta_data,
             another_between |-> FALSE]
       ELSE [first_run EXCEPT
               !.another_between = @ \/ rows # first_run.rows]
  /\ rows' = <<>>
  /\ LET s == driver_locals(new_id_to_elo_rating)
     IN /\ pc' = s.pc
        /\ id_to_elo_rating' = s.id_to_elo_rating
        /\ index_to_elo_rating_and_meta_data' =
             s.index_to_elo_rating_and_meta_data
        /\ all_indexes' = s.all_indexes
        /\ total_match_number' = s.total_match_number
  /\ UNCHANGED <<function_name, tie_column, tie_has_NA, index_stop, arguments,
                 result, sheets, sheet, data, all_elo_df, id_to_elo_df,
                 output_dir>>

NextRuns ==
  \/ \E winner_id \in Subjects, cell \in {"True", "False"} :
       \E loser_id \in Subjects \ {winner_id} :
          Len(rows) < MaxRunRows /\ Contest(winner_id, loser_id, cell)
  \/ Finish
  \/ NextRun

SpecRuns == InitRuns /\ [][NextRuns]_vars

\* ------------------------------------------- update_elo_rating called alone
\* The ratings of the dictionaries a caller passes to update_elo_rating
PassedRatings ==
  {default_elo_rating - 10 * RatingScale, default_elo_rating,
   default_elo_rating + 10 * RatingScale}

\* The dictionaries a caller passes: none, one or two ids, in any order
PassedDicts ==
  {<<>>}
    \cup {<<[id |-> a, rating |-> x]>> : a \in Subjects, x \in PassedRatings}
    \cup {<<[id |-> a, rating |-> x], [id |-> b, rating |-> y]>> :
            a \in Subjects, b \in Subjects, x \in PassedRatings,
            y \in PassedRatings}

\* A call update_elo_rating(winner_id, loser_id, id_to_elo_rating) with the
\* other parameters at their defaults (lines 53-61): id_to_elo_rating is
\* None, a dict, or a defaultdict(lambda: 1000) as the drivers build it.
InitUpdate ==
  /\ arguments \in [winner_id : Subjects, loser_id : Subjects,
                    id_to_elo_rating_type : {None, "dict", "defaultdict"},
                    id_to_elo_rating : PassedDicts]
  /\ arguments.id_to_elo_rating_type = None
       => arguments.id_to_elo_rating = <<>>
  /\ Cardinality(Keys(arguments.id_to_elo_rating))
       = Len(arguments.id_to_elo_rating)
  /\ pc = "update_elo_rating"
  /\ id_to_elo_rating = arguments.id_to_elo_rating
  /\ function_name = "rating"
  /\ tie_column = None
  /\ tie_has_NA = FALSE
  /\ rows = <<>>
  /\ index_to_elo_rating_and_meta_data = <<>>
  /\ all_indexes = 0
  /\ index_stop = AllIndexesStop
  /\ total_match_number = 1
  /\ run = 1
  /\ first_run = NoRun
  /\ result = NoResult
  /\ sheets = 0
  /\ sheet = 0
  /\ data = NoData
  /\ all_elo_df = <<>>
  /\ id_to_elo_df = <<>>
  /\ output_dir = {}

\* The body of update_elo_rating, lines 82-103.  Only None is replaced by a
\* defaultdict (lines 82-83); a dict that lacks the id raises KeyError at the
\* read of line 86 or 87, before anything is written.
UpdateEloRating ==
  /\ pc = "update_elo_rating"
  /\ LET winner_id == arguments.winner_id
         loser_id == arguments.loser_id
         d == IF arguments.id_to_elo_rating_type = None THEN <<>>
              ELSE id_to_elo_rating
         raises(key) == arguments.id_to_elo_rating_type = "dict"
                          /\ key \notin Keys(d)
     IN IF raises(winner_id) \/ raises(loser_id)
        THEN /\ pc' = "KeyError"
             /\ UNCHANGED id_to_elo_rating
        ELSE /\ pc' = "returned"
             /\ id_to_elo_rating' =
                  update_elo_rating(d, winner_id, loser_id, Win, Loss)
  /\ UNCHANGED <<function_name, tie_column, tie_has_NA, rows,
                 index_to_elo_rating_and_meta_data, all_indexes, index_stop,
                 total_match_number, caller_vars>>

NextUpdate == UpdateEloRating

SpecUpdate == InitUpdate /\ [][NextUpdate]_vars

\* ------------------------------------------------------ generate_elo_scores
\* The values of the cage column of a reward-competition sheet
Cages == {1, 2}

\* sorted() over the ids: Python's order of strings
SubjectOrder == <<"A", "B", "C">>
Ord(id) == CHOOSE i \in 1..Len(SubjectOrder) : SubjectOrder[i] = id

\* The rows of melted_rc_df after elo_score.py lines 50-97: a cage, a winner
\* that is one of the two animal_ids of the match, the other id as loser
\* (lines 91-94) and match_is_tie; the winner of a tie is animal_ids[0], the
\* first of the sorted ids (lines 39-42, 72-76).
RewardRows ==
  {r \in [cage : Cages, winner : Subjects, loser : Subjects,
          tie : {"True", "False"}] :
     /\ r.winner # r.loser
     /\ r.tie = "True" => Ord(r.winner) < Ord(r.loser)}

RewardFrames == UNION {[1..n -> RewardRows] : n \in 0..MaxSheetRows}

\* The rows of a sheet of another protocol when __process calls the driver
\* (lines 281-306): a winner cell that may be empty, a loser, and the tie
\* column as notna() left it (lines 299-300).
ProcessRows ==
  [winner : Subjects \cup {NaN}, loser : Subjects, tie : {"True", "False"}]

ProcessFrames == UNION {[1..n -> ProcessRows] : n \in 0..MaxSheetRows}

RECURSIVE unique(_)
\* Series.unique(): the values in the order of their first appearance
unique(column) ==
  IF column = <<>> THEN <<>>
  ELSE LET before == unique(SubSeq(column, 1, Len(column) - 1))
           value == column[Len(column)]
       IN IF \E i \in 1..Len(before) : before[i] = value THEN before
          ELSE Append(before, value)

\* pd.DataFrame.from_dict(ledger, orient="index"): one row for each index
from_dict(ledger) ==
  [i \in 1..Cardinality(DOMAIN ledger) |-> ledger[i - 1]]

\* elo_score.py lines 102-110 and 117-119 for one cage: the driver on the rows
\* of the cage; additional_columns copies the cage of the row into both
\* entries of a contest (rank.py lines 238-239, 252-253).
cage_elo_rating_df(melted_rc_df, cage) ==
  LET InCage(r) == r.cage = cage
      cage_df == SelectSeq(melted_rc_df, InCage)
      returned == for_loop(driver_locals(new_id_to_elo_rating), cage_df)
      frame == from_dict(returned.index_to_elo_rating_and_meta_data)
  IN [i \in 1..Len(frame) |-> frame[i] @@ [cage |-> cage]]

RECURSIVE concat(_, _)
\* Lines 101-126: the frames of the cages, in the order of the cages, as one
concat(melted_rc_df, cages) ==
  IF cages = <<>> THEN <<>>
  ELSE cage_elo_rating_df(melted_rc_df, Head(cages))
         \o concat(melted_rc_df, Tail(cages))

\* Lines 137-151: one row for each subject_id of the whole frame, in sorted
\* order, taken from the last row of that subject_id in the whole frame
id_to_elo_dict(frame) ==
  LET ids == {frame[i].subject_id : i \in 1..Len(frame)}
      Present(id) == id \in ids
      sorted == SelectSeq(SubjectOrder, Present)
      last(id) == frame[CHOOSE i \in 1..Len(frame) :
                          /\ frame[i].subject_id = id
                          /\ \A j \in (i + 1)..Len(frame) :
                                frame[j].subject_id # id]
  IN [k \in 1..Len(sorted) |->
        [subject_id |-> sorted[k],
         final_elo_rating |-> last(sorted[k]).updated_elo_rating,
         cage |-> last(sorted[k]).cage]]

\* Lines 155-158: groupby("cage")["final_elo_rating"].rank("dense",
\* ascending=False): one more than the number of different higher ratings
\* among the rows of the same cage
dense_rank(table, k) ==
  1 + Cardinality({table[j].final_elo_rating : j \in
        {j \in 1..Len(table) :
           /\ table[j].cage = table[k].cage
           /\ table[j].final_elo_rating > table[k].final_elo_rating}})

RECURSIVE sort_values(_, _)
\* Lines 159-167: sort_values(by=['cage', 'subject_id']) of a table whose
\* rows are in the order of subject_id
sort_values(table, cages) ==
  IF cages = {} THEN <<>>
  ELSE LET cage == CHOOSE c \in cages : \A other \in cages : c <= other
           InCage(r) == r.cage = cage
       IN SelectSeq(table, InCage) \o sort_values(table, cages \ {cage})

\* generate_elo_scores before its loop (lines 385-391); the sheets of all
\* files are numbered in the order they are read.
InitSheets ==
  /\ sheets \in 1..MaxSheets
  /\ sheet = 0
  /\ data = NoData
  /\ all_elo_df = <<>>
  /\ id_to_elo_df = <<>>
  /\ output_dir = {}
  /\ pc = "iterating"
  /\ function_name = "rating"
  /\ tie_column = "match_is_tie"
  /\ tie_has_NA = FALSE
  /\ rows = <<>>
  /\ id_to_elo_rating = <<>>
  /\ index_to_elo_rating_and_meta_data = <<>>
  /\ all_indexes = 0
  /\ index_stop = AllIndexesStop
  /\ total_match_number = 1
  /\ run = 1
  /\ first_run = NoRun
  /\ arguments = NoArguments
  /\ result = NoResult

\* One iteration of the loop of generate_elo_scores on a sheet of the
\* protocol reward_competition (lines 392-397): __reward_competition on the
\* rows of the sheet, lines 99-222.  With no row there is no cage, and
\* list(cage_to_elo_rating_dict.keys())[0] at line 112 raises IndexError,
\* unless the assignment of the result of apply on the empty frame (lines
\* 72-76, 91-94) has raised ValueError before; nothing catches either.
reward_competition(melted_rc_df) ==
  /\ pc = "iterating"
  /\ data = NoData
  /\ sheet < sheets
  /\ sheet' = sheet + 1
  /\ data' = [protocol |-> "reward_competition", rows |-> melted_rc_df]
  /\ LET cages == unique([i \in 1..Len(melted_rc_df) |-> melted_rc_df[i].cage])
         frame == concat(melted_rc_df, cages)
         table == id_to_elo_dict(frame)
         ranked == [k \in 1..Len(table) |->
                      table[k] @@ [rank |-> dense_rank(table, k)]]
     IN IF cages = <<>>
        THEN /\ pc' \in {"ValueError", "IndexError"}
             /\ all_elo_df' = <<>>
             /\ id_to_elo_df' = <<>>
             /\ UNCHANGED output_dir
        ELSE /\ pc' = "iterating"
             /\ all_elo_df' = frame
             /\ id_to_elo_df' = sort_values(ranked, Cages)
             /\ output_dir' = output_dir \cup {sheet + 1}
  /\ UNCHANGED <<function_name, tie_column, tie_has_NA, rows,
                 id_to_elo_rating, index_to_elo_rating_and_meta_data,
                 all_indexes, index_stop, total_match_number, run, first_run,
                 arguments, result, sheets>>

\* One iteration of the loop of generate_elo_scores on a sheet of another
\* protocol (lines 398-404): __process from its call of the driver on, lines
\* 302-362.  With an empty ledger elo_df has no column, and
\* elo_df.groupby("subject_id") at line 308 raises KeyError; nothing catches
\* it.
process(df) ==
  /\ pc = "iterating"
  /\ data = NoData
  /\ sheet < sheets
  /\ sheet' = sheet + 1
  /\ data' = [protocol |-> "test_tube", rows |-> df]
  /\ LET elo_calc == for_loop(driver_locals(new_id_to_elo_rating), df)
                        .index_to_elo_rating_and_meta_data
     IN IF DOMAIN elo_calc = {}
        THEN /\ pc' = "KeyError"
             /\ all_elo_df' = <<>>
             /\ UNCHANGED output_dir
        ELSE /\ pc' = "iterating"
             /\ all_elo_df' = from_dict(elo_calc)
             /\ output_dir' = output_dir \cup {sheet + 1}
  /\ id_to_elo_df' = <<>>
  /\ UNCHANGED <<function_name, tie_column, tie_has_NA, rows,
                 id_to_elo_rating, index_to_elo_rating_and_meta_data,
                 all_indexes, index_stop, total_match_number, run, first_run,
                 arguments, result, sheets>>

\* __reward_competition or __process returns None (lines 224, 362): its
\* locals are gone and the loop goes on to the next sheet
ReturnNone ==
  /\ pc = "iterating"
  /\ data # NoData
  /\ data' = NoData
  /\ all_elo_df' = <<>>
  /\ id_to_elo_df' = <<>>
  /\ UNCHANGED <<function_name, tie_column, tie_has_NA, rows, pc,
                 id_to_elo_rating, index_to_elo_rating_and_meta_data,
                 all_indexes, index_stop, total_match_number, run, first_run,
                 arguments, result, sheets, sheet, output_dir>>

\* Every sheet is read: generate_elo_scores returns
Return ==
  /\ pc = "iterating"
  /\ data = NoData
  /\ sheet = sheets
  /\ pc' = "done"
  /\ UNCHANGED <<function_name, tie_column, tie_has_NA, rows,
                 id_to_elo_rating, index_to_elo_rating_and_meta_data,
                 all_indexes, index_stop, total_match_number, caller_vars>>

NextSheets ==
  \/ \E melted_rc_df \in RewardFrames : reward_competition(melted_rc_df)
  \/ \E df \in ProcessFrames : process(df)
  \/ ReturnNone
  \/ Return

SpecSheets == InitSheets /\ [][NextSheets]_vars

\* ------------------------------------------------- the bouts of a behavior
\* What the helpers below return is compared with on the state that did not
\* call them
DriverIdle ==
  /\ function_name = "rating"
  /\ tie_column = None
  /\ tie_has_NA = FALSE
  /\ rows = <<>>
  /\ id_to_elo_rating = <<>>
  /\ index_to_elo_rating_and_meta_data = <<>>
  /\ all_indexes = 0
  /\ index_stop = AllIndexesStop
  /\ total_match_number = 1
  /\ run = 1
  /\ first_run = NoRun
  /\ sheets = 0
  /\ sheet = 0
  /\ data = NoData
  /\ all_elo_df = <<>>
  /\ id_to_elo_df = <<>>
  /\ output_dir = {}

\* ndarray.flatten of an array of rows <<start, stop>>, row by row
flatten(a) ==
  [k \in 1..(2 * Len(a)) |->
     IF k % 2 = 1 THEN a[(k + 1) \div 2][1] ELSE a[k \div 2][2]]

\* np.sort of a flat array: ascending
RECURSIVE np_sort(_)
np_sort(a) ==
  IF a = <<>> THEN <<>>
  ELSE LET m == CHOOSE i \in 1..Len(a) : \A j \in 1..Len(a) : a[i] <= a[j]
       IN <<a[m]>> \o np_sort(SubSeq(a, 1, m - 1) \o SubSeq(a, m + 1, Len(a)))

\* np.delete(arr, obj): arr without the elements at the positions in obj
np_delete(arr, obj) ==
  LET kept == (1..Len(arr)) \ obj
  IN [k \in 1..Cardinality(kept) |->
        arr[CHOOSE i \in kept : Cardinality({j \in kept : j < i}) = k - 1]]

\* np.reshape(arr, (len(arr) / 2, 2))
reshape(arr) == [k \in 1..(Len(arr) \div 2) |-> <<arr[2 * k - 1], arr[2 * k]>>]

\* threshold_bouts, lines 5-37.  Positions count from 1 here: the odd i of
\* range(1, len - 1, 2) are the even positions p = i + 1, a stop and the
\* start after it; the even i of range(0, len - 1, 2) are the odd positions,
\* a start and its stop.
threshold_bouts(start_stop_array, min_iti, min_bout) ==
  LET sorted == np_sort(flatten(start_stop_array))
      times_to_delete ==
        IF min_iti > 0
        THEN UNION {{p, p + 1} :
                      p \in {q \in 2..(Len(sorted) - 1) :
                               /\ q % 2 = 0
                               /\ sorted[q + 1] - sorted[q] < min_iti}}
        ELSE {}
      combined == np_delete(sorted, times_to_delete)
      bouts_to_delete ==
        IF min_bout > 0
        THEN UNION {{p, p + 1} :
                      p \in {q \in 1..(Len(combined) - 1) :
                               /\ q % 2 = 1
                               /\ combined[q + 1] - combined[q] < min_bout}}
        ELSE {}
  IN reshape(np_delete(combined, bouts_to_delete))

\* start_stop_array[np.argsort(start_stop_array[:, 0])], lines 66-67: the
\* rows by ascending start
RECURSIVE argsort_rows(_)
argsort_rows(a) ==
  IF a = <<>> THEN <<>>
  ELSE LET m == CHOOSE i \in 1..Len(a) : \A j \in 1..Len(a) : a[i][1] <= a[j][1]
       IN <<a[m]>>
            \o argsort_rows(SubSeq(a, 1, m - 1) \o SubSeq(a, m + 1, Len(a)))

\* get_behavior_bouts for one subject and one behavior, lines 56-69:
\* boris_df is the rows <<Start (s), Stop (s)>> of that subject and behavior.
\* The call at lines 63-64 is threshold_bouts(start_stop_array, min_bout,
\* min_iti); the result is in milliseconds.
get_behavior_bouts(boris_df, min_iti, min_bout) ==
  LET start_stop_array == threshold_bouts(boris_df, min_bout, min_iti)
      organized == argsort_rows(start_stop_array)
  IN [k \in 1..Len(organized) |->
        <<organized[k][1] * 1000, organized[k][2] * 1000>>]

\* The tables BORIS writes for one subject and behavior: bouts in the order
\* of time, a bout stops after it starts and before the next one starts
BorisFrames ==
  {a \in UNION {[1..n -> (0..MaxTime) \X (0..MaxTime)] : n \in 0..MaxBouts} :
     /\ \A k \in 1..Len(a) : a[k][1] < a[k][2]
     /\ \A k \in 1..(Len(a) - 1) : a[k][2] < a[k + 1][1]}

\* A call get_behavior_bouts(boris_df, subject, behavior, min_iti, min_bout)
InitBouts ==
  /\ arguments \in [boris_df : BorisFrames, min_iti : 0..MaxThreshold,
                    min_bout : 0..MaxThreshold]
  /\ pc = "get_behavior_bouts"
  /\ result = NoResult
  /\ DriverIdle

GetBehaviorBouts ==
  /\ pc = "get_behavior_bouts"
  /\ pc' = "returned"
  /\ result' = [raises |-> None,
                value |-> get_behavior_bouts(arguments.boris_df,
                                             arguments.min_iti,
                                             arguments.min_bout)]
  /\ UNCHANGED <<function_name, tie_column, tie_has_NA, rows,
                 id_to_elo_rating, index_to_elo_rating_and_meta_data,
                 all_indexes, index_stop, total_match_number, run, first_run,
                 arguments, sheets, sheet, data, all_elo_df, id_to_elo_df,
                 output_dir>>

NextBouts == GetBehaviorBouts

SpecBouts == InitBouts /\ [][NextBouts]_vars

\* ------------------------------------------------------- the tone times
\* The NaN of a tone column; no tone time is negative
ToneNaN == -1

\* The cells of a tone column: NaN, tone times, and the numbers divisible by
\* 1000 that MED-PC writes after the tone times
ToneCells == {ToneNaN, 150, 250, 1000, 2000}

ToneSeries == UNION {[1..n -> ToneCells] : n \in 0..MaxTones}

\* get_max_tone_number, lines 380-383: the index, counted from 0, of the
\* first number divisible by 1000 (NaN % 1000 is NaN, which is not 0), and
\* without one the index the loop ended on, the last; the loop variable is
\* unbound when the series is empty
get_max_tone_number(tone_pd_series) ==
  LET divisible == {i \in 1..Len(tone_pd_series) :
                      /\ tone_pd_series[i] # ToneNaN
                      /\ tone_pd_series[i] % 1000 = 0}
  IN IF tone_pd_series = <<>>
     THEN [raises |-> "UnboundLocalError", value |-> <<>>]
     ELSE IF divisible # {}
     THEN [raises |-> None,
           value |-> (CHOOSE i \in divisible : \A j \in divisible : i <= j) - 1]
     ELSE [raises |-> None, value |-> Len(tone_pd_series) - 1]

\* get_valid_tones, lines 405-412
get_valid_tones(tone_pd_series, drop_1000s, dropna) ==
  LET dropped == IF dropna
                 THEN SelectSeq(tone_pd_series, LAMBDA num : num # ToneNaN)
                 ELSE tone_pd_series
      max_tone == get_max_tone_number(dropped)
  IN IF ~drop_1000s THEN [raises |-> None, value |-> dropped]
     ELSE IF max_tone.raises # None THEN max_tone
     ELSE [raises |-> None, value |-> SubSeq(dropped, 1, max_tone.value)]

\* A call get_valid_tones(tone_pd_series, drop_1000s, dropna)
InitTones ==
  /\ arguments \in [tone_pd_series : ToneSeries, drop_1000s : BOOLEAN,
                    dropna : BOOLEAN]
  /\ pc = "get_valid_tones"
  /\ result = NoResult
  /\ DriverIdle

GetValidTones ==
  /\ pc = "get_valid_tones"
  /\ result' = get_valid_tones(arguments.tone_pd_series, arguments.drop_1000s,
                               arguments.dropna)
  /\ pc' = IF result'.raises = None THEN "returned" ELSE result'.raises
  /\ UNCHANGED <<function_name, tie_column, tie_has_NA, rows,
                 id_to_elo_rating, index_to_elo_rating_and_meta_data,
                 all_indexes, index_stop, total_match_number, run, first_run,
                 arguments, sheets, sheet, data, all_elo_df, id_to_elo_df,
                 output_dir>>

NextTones == GetValidTones

SpecTones == InitTones /\ [][NextTones]_vars

\* ------------------------------------------------- the contact of two mice
abs(x) == IF x < 0 THEN -x ELSE x

\* contact, lines 239-257: the left mouse is the one with the smaller first
\* position; in each frame the if of line 251 assigns True, and the if/else
\* of lines 253-256 assigns after it.  node_array_m1[0] raises IndexError on
\* arrays without a frame.
contact(node_array_m1, node_array_m2, epsilon) ==
  LET m2_is_left == node_array_m1[1] > node_array_m2[1]
      left_array == IF m2_is_left THEN node_array_m2 ELSE node_array_m1
      right_array == IF m2_is_left THEN node_array_m1 ELSE node_array_m2
      line_252(i) ==
        IF abs(node_array_m1[i] - node_array_m2[i]) < epsilon THEN TRUE ELSE 0
      line_256(i, before) == IF left_array[i] > right_array[i] THEN TRUE ELSE FALSE
  IN IF node_array_m1 = <<>>
     THEN [raises |-> "IndexError", value |-> <<>>]
     ELSE [raises |-> None,
           value |-> [i \in 1..Len(node_array_m1) |-> line_256(i, line_252(i))]]

\* Two node arrays of one video: one position a frame for each mouse
NodeArrays ==
  UNION {[1..n -> 0..MaxPosition] \X [1..n -> 0..MaxPosition] :
           n \in 0..MaxFrames}

\* A call contact(node_array_m1, node_array_m2, epsilon)
InitContact ==
  /\ \E pair \in NodeArrays, epsilon \in 0..MaxEpsilon :
       arguments = [node_array_m1 |-> pair[1], node_array_m2 |-> pair[2],
                    epsilon |-> epsilon]
  /\ pc = "contact"
  /\ result = NoResult
  /\ DriverIdle

Contact ==
  /\ pc = "contact"
  /\ result' = contact(arguments.node_array_m1, arguments.node_array_m2,
                       arguments.epsilon)
  /\ pc' = IF result'.raises = None THEN "returned" ELSE result'.raises
  /\ UNCHANGED <<function_name, tie_column, tie_has_NA, rows,
                 id_to_elo_rating, index_to_elo_rating_and_meta_data,
                 all_indexes, index_stop, total_match_number, run, first_run,
                 arguments, sheets, sheet, data, all_elo_df, id_to_elo_df,
                 output_dir>>

NextContact == Contact

SpecContact == InitContact /\ [][NextContact]_vars

\* ---------------------------------------------------------------- claims
\* C1: for every contest, the loser's new rating is calculate_elo_rating of
\* the two ratings as they stood before the contest (the original ratings of
\* the two entries), and so is the winner's: neither update sees the other.
\* When winner and loser are one id the dictionary keeps the later write, the
\* loser's, so the winner's value is stated for two distinct ids.
C1_UpdatesUsePreContestRatings ==
  \A k \in Contests :
    LET w == WinnerEntry(k)
        l == LoserEntry(k)
    IN /\ l.updated_elo_rating =
            calculate_elo_rating(l.original_elo_rating, w.original_elo_rating,
                                 l.win_draw_loss)
       /\ w.subject_id # l.subject_id =>
            w.updated_elo_rating =
              calculate_elo_rating(w.original_elo_rating,
                                   l.original_elo_rating, w.win_draw_loss)

\* A later contest between two subjects whose ratings already differ
C1_Witness ==
  \E k \in Contests :
    /\ k >= 2
    /\ WinnerEntry(k).subject_id # LoserEntry(k).subject_id
    /\ WinnerEntry(k).original_elo_rating # LoserEntry(k).original_elo_rating
    /\ WinnerEntry(k).updated_elo_rating # WinnerEntry(k).original_elo_rating

\* C2: the first ledger entry of every subject records the default rating
\* 1000 as its original rating, whatever was processed before.
C2_FirstOriginalRatingIsDefault ==
  \A i \in DOMAIN index_to_elo_rating_and_meta_data :
    (\A j \in DOMAIN index_to_elo_rating_and_meta_data :
        j < i => index_to_elo_rating_and_meta_data[j].subject_id
                   # index_to_elo_rating_and_meta_data[i].subject_id)
    => index_to_elo_rating_and_meta_data[i].original_elo_rating
         = default_elo_rating

\* A subject enters in the second contest, after a contest of two others
\* has moved their ratings away from the default
C2_Witness ==
  /\ 2 \in Contests
  /\ \E e \in {WinnerEntry(2), LoserEntry(2)} :
        /\ e.subject_id \notin {WinnerEntry(1).subject_id,
                                LoserEntry(1).subject_id}
        /\ e.agent_id # e.subject_id
        /\ e.original_elo_rating = default_elo_rating
  /\ WinnerEntry(1).updated_elo_rating # default_elo_rating

\* C3: a non-tie contest between two subjects both rated 1000 leaves the
\* winner at 1010.0 and the loser at 990.0 (k_factor 20, one decimal).
C3_FirstWinIs1010And990 ==
  \A k \in Contests :
    LET w == WinnerEntry(k)
        l == LoserEntry(k)
    IN (/\ w.subject_id # l.subject_id
        /\ w.win_draw_loss = Win /\ l.win_draw_loss = Loss
        /\ w.original_elo_rating = 1000 * RatingScale
        /\ l.original_elo_rating = 1000 * RatingScale)
       => /\ w.updated_elo_rating = 1010 * RatingScale
          /\ l.updated_elo_rating = 990 * RatingScale

C3_Witness ==
  \E k \in Contests :
    /\ WinnerEntry(k).subject_id # LoserEntry(k).subject_id
    /\ WinnerEntry(k).win_draw_loss = Win
    /\ WinnerEntry(k).original_elo_rating = 1000 * RatingScale
    /\ LoserEntry(k).original_elo_rating = 1000 * RatingScale
    /\ WinnerEntry(k).updated_elo_rating = 1010 * RatingScale

\* C4: a tied contest between equal pre-contest ratings leaves both ratings
\* unchanged.
C4_TieAtEqualRatingsChangesNothing ==
  \A k \in Contests :
    LET w == WinnerEntry(k)
        l == LoserEntry(k)
    IN (/\ w.win_draw_loss = Draw /\ l.win_draw_loss = Draw
        /\ w.original_elo_rating = l.original_elo_rating)
       => /\ w.updated_elo_rating = w.original_elo_rating
          /\ l.updated_elo_rating = l.original_elo_rating

\* Two subjects tie at equal ratings after an earlier contest
C4_Witness ==
  /\ 2 \in Contests
  /\ WinnerEntry(2).subject_id # LoserEntry(2).subject_id
  /\ WinnerEntry(2).win_draw_loss = Draw
  /\ LoserEntry(2).win_draw_loss = Draw
  /\ WinnerEntry(2).original_elo_rating = LoserEntry(2).original_elo_rating

\* C5: in every non-tie contest the expected score of the winner and the
\* expected score of the loser, each computed from the same two pre-contest
\* ratings with the difference taken its own way round, sum to 1.0; each is
\* held truncated to 1/ScoreScale, so the sum is 1.0 or one unit short of it.
C5_ExpectedScoresSumToOne ==
  \A k \in Contests :
    LET w == WinnerEntry(k)
        l == LoserEntry(k)
        expected_winner ==
          expected_score(l.original_elo_rating - w.original_elo_rating)
        expected_loser ==
          expected_score(w.original_elo_rating - l.original_elo_rating)
    IN w.win_draw_loss = Win =>
         expected_winner + expected_loser \in {ScoreScale - 1, ScoreScale}

\* A non-tie contest between unequal ratings
C5_Witness ==
  \E k \in Contests :
    /\ WinnerEntry(k).win_draw_loss = Win
    /\ WinnerEntry(k).original_elo_rating # LoserEntry(k).original_elo_rating

\* C6: for every stream with N rows that have a winner id, of any length, the
\* driver never stops on an exception and returns exactly 2 * N entries
\* (stated for streams of contests between two different ids).
C6_ReturnsTwoEntriesPerValidRow ==
  PairwiseRows =>
    /\ pc # "StopIteration"
    /\ pc = "done" =>
         Cardinality(DOMAIN index_to_elo_rating_and_meta_data)
           = 2 * Len(ValidRows)

\* C7: the k-th kept row of the input produces the entries 2k-2 (winner,
\* pairing_index 0) and 2k-1 (loser, pairing_index 1), both with
\* total_match_number k; the indexes in use are 0, 1, 2, ... without a gap.
C7_EntriesFollowRowOrder ==
  /\ \E n \in 0..(2 * Len(rows)) :
        DOMAIN index_to_elo_rating_and_meta_data = 0..(n - 1)
  /\ pc \in {"iterating", "done"} =>
       Cardinality(DOMAIN index_to_elo_rating_and_meta_data)
         = 2 * Len(ValidRows)
  /\ \A k \in Contests :
       LET w == WinnerEntry(k)
           l == LoserEntry(k)
       IN /\ w.total_match_number = k /\ l.total_match_number = k
          /\ w.subject_id = ValidRows[k].winner
          /\ w.agent_id = ValidRows[k].loser
          /\ l.subject_id = ValidRows[k].loser
          /\ l.agent_id = ValidRows[k].winner
          /\ function_name = "rating" =>
               w.pairing_index = 0 /\ l.pairing_index = 1

\* Three contests, the second kept row coming after a dropped row
C7_Witness ==
  /\ function_name = "rating"
  /\ pc = "done"
  /\ Len(rows) = 3
  /\ rows[1].winner # NaN /\ rows[2].winner = NaN /\ rows[3].winner # NaN
  /\ WinnerEntry(2).total_match_number = 2

\* C8: a row whose winner id or loser id is missing makes the driver fail; it
\* is neither skipped nor processed, no ledger entry has a missing id and the
\* rating dictionary has no missing id as a key.
C8_MissingIdIsRejected ==
  /\ \A i \in 1..Len(rows) :
        (rows[i].winner = NaN \/ rows[i].loser = NaN)
          => pc \notin {"iterating", "done"}
  /\ NaN \notin Keys(id_to_elo_rating)
  /\ \A i \in DOMAIN index_to_elo_rating_and_meta_data :
        /\ index_to_elo_rating_and_meta_data[i].subject_id # NaN
        /\ index_to_elo_rating_and_meta_data[i].agent_id # NaN

\* C9: in both drivers a contest is scored (0.5, 0.5) when its tie flag is
\* true, and (1, 0) when its flag is present but false or when no tie column
\* is configured (stated for streams of contests between two different ids,
\* and for the cells that hold a flag: an empty cell is not judged here).
C9_TieScoreIffTieFlagTrue ==
  PairwiseRows => \A k \in Contests :
    LET w == WinnerEntry(k)
        l == LoserEntry(k)
        cell == ValidRows[k].tie
    IN /\ cell \in {"True", "np.True_"} =>
            w.win_draw_loss = Draw /\ l.win_draw_loss = Draw
       /\ cell \in {"False", "np.False_", Unread} =>
            w.win_draw_loss = Win /\ l.win_draw_loss = Loss

\* C10: when the tie column cannot be coerced to boolean the rating driver
\* fails: it scores no contest from the uncoerced column and does not return
\* (stated for streams of contests between two different ids).
C10_UncoercibleTieColumnFails ==
  (function_name = "rating" /\ tie_column # None /\ tie_has_NA
   /\ PairwiseRows)
    => /\ pc # "done"
       /\ DOMAIN index_to_elo_rating_and_meta_data = {}


\* C11 (as stated): in every pair of ledger entries the winner's rank after
\* the contest is not below the loser's (stated for the contests of two different
\* ids that are not scored as ties).
C11_WinnerRankedNotBelowLoser ==
  PairwiseRows => \A k \in Contests :
    LET w == WinnerEntry(k)
    IN w.win_draw_loss = Win => w.subject_ranking <= w.agent_ranking

\* C11 (amended): in every pair of ledger entries of a contest that is not a
\* tie and whose winner was rated, before the contest, not below its loser,
\* the winner's rank after the contest is not below the loser's.
C11_WinnerNotRatedBelowStaysRankedNotBelow ==
  \A k \in Contests :
    LET w == WinnerEntry(k)
        l == LoserEntry(k)
    IN (w.win_draw_loss = Win
        /\ w.original_elo_rating >= l.original_elo_rating)
         => w.subject_ranking <= w.agent_ranking

\* a later contest of two ids, won by the one rated higher before it, after
\* which the winner is ranked above the loser
C11_Witness ==
  \E k \in Contests :
    LET w == WinnerEntry(k)
        l == LoserEntry(k)
    IN /\ k > 1
       /\ w.subject_id # w.agent_id
       /\ w.win_draw_loss = Win
       /\ w.original_elo_rating > l.original_elo_rating
       /\ w.subject_ranking < w.agent_ranking

\* C12: from a fresh state the stream [x beats y, y beats x] ends with a
\* rating of x and a rating of y that both differ from the ratings the
\* stream [y beats x, x beats y] ends with.
C12_OrderOfContestsMatters ==
  (/\ pc = "done"
   /\ Len(rows) = 2
   /\ Contests = 1..2
   /\ rows[1].winner = rows[2].loser
   /\ rows[1].loser = rows[2].winner
   /\ rows[1].winner # rows[1].loser
   /\ \A k \in Contests : WinnerEntry(k).win_draw_loss = Win)
    => LET swapped == for_loop(driver_locals(<<>>), <<rows[2], rows[1]>>)
       IN /\ swapped.pc = "iterating"
          /\ \A x \in {rows[1].winner, rows[1].loser} :
                getitem(id_to_elo_rating, x)
                  # getitem(swapped.id_to_elo_rating, x)

\* the run of [x beats y, y beats x] has returned
C12_Witness ==
  /\ pc = "done"
  /\ Len(rows) = 2
  /\ Contests = 1..2
  /\ rows[1].winner = rows[2].loser
  /\ rows[1].loser = rows[2].winner
  /\ rows[1].winner # rows[1].loser
  /\ \A k \in Contests : WinnerEntry(k).win_draw_loss = Win
  /\ getitem(id_to_elo_rating, rows[1].winner) < default_elo_rating
  /\ getitem(id_to_elo_rating, rows[2].winner) > default_elo_rating

\* C14: get_ranking_from_elo_rating_dictionary gives the 1-based rank by
\* rating descending: of two subjects the one rated strictly higher has the
\* strictly smaller rank, the ranks of the n subjects of a dictionary are
\* exactly 1..n, each held once, and the subject of rank 1 has the maximum
\* rating.
C14_RankIsOneBasedByRatingDescending ==
  LET d == id_to_elo_rating
      n == Len(d)
      rank(i) == get_ranking_from_elo_rating_dictionary(d, d[i].id)
  IN /\ \A i, j \in 1..n : d[i].rating > d[j].rating => rank(i) < rank(j)
     /\ {rank(i) : i \in 1..n} = 1..n
     /\ \A i, j \in 1..n : i # j => rank(i) # rank(j)
     /\ \A i, j \in 1..n : rank(i) = 1 => d[j].rating <= d[i].rating

\* a dictionary of three subjects of three ratings in which the subject
\* inserted last is ranked first and the one inserted second is ranked last
C14_Witness ==
  LET d == id_to_elo_rating
  IN /\ Len(d) = 3
     /\ d[3].rating > d[1].rating
     /\ d[1].rating > d[2].rating
     /\ get_ranking_from_elo_rating_dictionary(d, d[3].id) = 1
     /\ get_ranking_from_elo_rating_dictionary(d, d[1].id) = 2
     /\ get_ranking_from_elo_rating_dictionary(d, d[2].id) = 3

\* C13: the driver keeps no state between runs: a run on the dataframe the
\* first run was given returns the ledger the first run returned (the same
\* entries at the same indexes, with the same ratings and ranks), also when a
\* run on another dataframe came between the two.
C13_SameDataframeSameLedger ==
  (run > 1 /\ pc = "done" /\ rows = first_run.rows)
    => index_to_elo_rating_and_meta_data = first_run.ledger

\* the third run has returned, on the contest the first run was given, after
\* a second run on another dataframe
C13_Witness ==
  /\ run = 3
  /\ pc = "done"
  /\ rows = first_run.rows
  /\ first_run.another_between
  /\ Contests # {}
  /\ index_to_elo_rating_and_meta_data = first_run.ledger

\* C15: ratings never cross cages: the ledger of each call of the cage loop
\* is the ledger of the driver run on the rows of that cage alone from a
\* fresh dictionary, and an id starts at the default rating in each cage it
\* is in.
C15_EachCageIsRatedAlone ==
  pc \in {"iterating", "done"} =>
    LET alone == for_loop(driver_locals(<<>>), rows)
    IN /\ index_to_elo_rating_and_meta_data =
            alone.index_to_elo_rating_and_meta_data
       /\ id_to_elo_rating = alone.id_to_elo_rating
       /\ \A i \in DOMAIN index_to_elo_rating_and_meta_data :
            LET e == index_to_elo_rating_and_meta_data[i]
            IN (\A j \in 0..(i - 1) :
                  index_to_elo_rating_and_meta_data[j].subject_id
                    # e.subject_id)
                 => e.original_elo_rating = default_elo_rating

\* a later call meets an id that an earlier call left at another rating than
\* the default, and starts it at the default
C15_Witness ==
  /\ run > 1
  /\ \E k \in Contests, i \in DOMAIN first_run.ledger :
       /\ first_run.ledger[i].subject_id = WinnerEntry(k).subject_id
       /\ first_run.ledger[i].updated_elo_rating # default_elo_rating
       /\ WinnerEntry(k).original_elo_rating = default_elo_rating
       /\ WinnerEntry(k).updated_elo_rating # default_elo_rating

\* C20: update_elo_rating takes default_elo_rating as the current rating of
\* a winner or loser id that the dictionary lacks, when no dictionary is
\* passed and when the caller passes a dict that lacks the id: the call
\* returns, and returns the dictionary with both ids in it, updated from the
\* ratings passed and the default for those not passed (stated for a winner
\* and a loser that are two different ids).
C20_AbsentIdIsRatedAtTheDefault ==
  (pc \in {"returned", "KeyError"}
   /\ arguments.winner_id # arguments.loser_id) =>
    /\ pc = "returned"
    /\ {arguments.winner_id, arguments.loser_id} \subseteq Keys(id_to_elo_rating)
    /\ id_to_elo_rating =
         update_elo_rating(arguments.id_to_elo_rating, arguments.winner_id,
                           arguments.loser_id, Win, Loss)

\* C16: the final standings of a reward-competition sheet have exactly one
\* row for each pair of a subject and a cage in the concatenated ledger, and
\* the final rating of the row is the updated rating of the last ledger entry
\* of that subject in that cage; an id in two cages has two rows.
C16_OneStandingForEachSubjectAndCage ==
  (data.protocol = "reward_competition" /\ pc = "iterating")
    => LET pairs == {<<all_elo_df[i].subject_id, all_elo_df[i].cage>> :
                       i \in 1..Len(all_elo_df)}
           last(p) == CHOOSE i \in 1..Len(all_elo_df) :
                        /\ all_elo_df[i].subject_id = p[1]
                        /\ all_elo_df[i].cage = p[2]
                        /\ \A j \in (i + 1)..Len(all_elo_df) :
                              ~ (/\ all_elo_df[j].subject_id = p[1]
                                 /\ all_elo_df[j].cage = p[2])
       IN /\ Len(id_to_elo_df) = Cardinality(pairs)
          /\ \A p \in pairs : \E k \in 1..Len(id_to_elo_df) :
                /\ id_to_elo_df[k].subject_id = p[1]
                /\ id_to_elo_df[k].cage = p[2]
                /\ id_to_elo_df[k].final_elo_rating
                     = all_elo_df[last(p)].updated_elo_rating

\* C17: the ranks of the final standings are dense and per cage, by final
\* rating descending: the ranks of a cage are exactly 1..m for its m different
\* final ratings, two subjects of a cage share a rank exactly when their final
\* ratings are equal, and every cage of the ledger has a subject of rank 1.
C17_RanksAreDenseInEachCage ==
  (data.protocol = "reward_competition" /\ pc = "iterating")
    => \A cage \in {all_elo_df[i].cage : i \in 1..Len(all_elo_df)} :
         LET group == {k \in 1..Len(id_to_elo_df) :
                         id_to_elo_df[k].cage = cage}
             final(k) == id_to_elo_df[k].final_elo_rating
             m == Cardinality({final(k) : k \in group})
         IN /\ {id_to_elo_df[k].rank : k \in group} = 1..m
            /\ \A j, k \in group :
                  /\ id_to_elo_df[j].rank = id_to_elo_df[k].rank
                       <=> final(j) = final(k)
                  /\ final(j) > final(k)
                       => id_to_elo_df[j].rank < id_to_elo_df[k].rank
            /\ \E k \in group : id_to_elo_df[k].rank = 1

\* C18: a sheet with no valid contest does not make generate_elo_scores
\* raise: no exception is raised on a sheet none of whose rows has a winner.
C18_SheetWithoutContestsDoesNotRaise ==
  pc \in {"ValueError", "IndexError", "KeyError"}
    => SelectSeq(data.rows, KeptRow) # <<>>

\* C19: a failure on one sheet ends the work on that sheet only: when an
\* exception has ended generate_elo_scores no sheet is left unread.
C19_FailureLeavesNoSheetUnread ==
  pc \in {"ValueError", "IndexError", "KeyError"} => sheet = sheets

\* C21: get_behavior_bouts uses the caller's min_iti as the minimum
\* inter-bout interval and the caller's min_bout as the minimum bout length:
\* it returns, in milliseconds, what threshold_bouts(array, min_iti, min_bout)
\* returns for the same values.
C21_ThresholdsAreUsedAsNamed ==
  pc = "returned" =>
    LET expected == threshold_bouts(arguments.boris_df, arguments.min_iti,
                                    arguments.min_bout)
    IN result.value = [k \in 1..Len(expected) |->
                         <<expected[k][1] * 1000, expected[k][2] * 1000>>]

\* C22: get_valid_tones, with its defaults, removes only the NaN entries and
\* the entries from the first value divisible by 1000 onward: it returns the
\* tone times before that value, and every tone time when no value is
\* divisible by 1000.  Stated for a series that holds a number.
C22_OnlyNaNAndFromFirstThousandRemoved ==
  (/\ pc \notin {"get_valid_tones"}
   /\ arguments.drop_1000s
   /\ arguments.dropna
   /\ \E i \in DOMAIN arguments.tone_pd_series :
        arguments.tone_pd_series[i] # ToneNaN) =>
    LET times == SelectSeq(arguments.tone_pd_series,
                           LAMBDA num : num # ToneNaN)
        thousands == {i \in 1..Len(times) : times[i] % 1000 = 0}
        valid == IF thousands = {} THEN times
                 ELSE SubSeq(times, 1,
                             (CHOOSE i \in thousands :
                                \A j \in thousands : i <= j) - 1)
    IN /\ pc = "returned"
       /\ result.value = valid

\* C23: contact marks frame i as contact whenever the two positions are
\* closer than epsilon: in the array returned every frame i with
\* |m1[i] - m2[i]| < epsilon is True.
C23_CloserThanEpsilonIsContact ==
  pc = "returned" =>
    \A i \in DOMAIN arguments.node_array_m1 :
       abs(arguments.node_array_m1[i] - arguments.node_array_m2[i])
           < arguments.epsilon
         => result.value[i] = TRUE

\* The ids of the contest stream in the order the loop reads them: the
\* winner of a row, then its loser
Appearances ==
  [k \in 1..(2 * Len(ValidRows)) |->
     IF k % 2 = 1 THEN ValidRows[(k + 1) \div 2].winner
     ELSE ValidRows[k \div 2].loser]

FirstAppearance(id) ==
  CHOOSE k \in 1..Len(Appearances) :
    /\ Appearances[k] = id
    /\ \A j \in 1..(k - 1) : Appearances[j] # id

\* C24: of two subjects with the same current rating, the one that first
\* appeared earlier in the contest stream (the winner before the loser
\* within one contest) has the numerically smaller rank, after any sequence
\* of contests.
C24_EqualRatingsRankedByFirstAppearance ==
  \A p \in 1..Len(id_to_elo_rating), q \in 1..Len(id_to_elo_rating) :
     (p < q /\ id_to_elo_rating[p].rating = id_to_elo_rating[q].rating) =>
       LET a == id_to_elo_rating[p].id
           b == id_to_elo_rating[q].id
           rank_a == get_ranking_from_elo_rating_dictionary(id_to_elo_rating, a)
           rank_b == get_ranking_from_elo_rating_dictionary(id_to_elo_rating, b)
       IN /\ FirstAppearance(a) < FirstAppearance(b) => rank_a < rank_b
          /\ FirstAppearance(b) < FirstAppearance(a) => rank_b < rank_a

\* Three subjects hold the same rating after two contests, and their ranks
\* 1, 2, 3 follow their first appearances B, A, C, not their names
C24_Witness ==
  /\ pc = "done"
  /\ Len(ValidRows) = 2
  /\ Appearances = <<"B", "A", "C", "A">>
  /\ \A a \in {"A", "C"} :
       getitem(id_to_elo_rating, a) = getitem(id_to_elo_rating, "B")
  /\ get_ranking_from_elo_rating_dictionary(id_to_elo_rating, "B") = 1
  /\ get_ranking_from_elo_rating_dictionary(id_to_elo_rating, "A") = 2
  /\ get_ranking_from_elo_rating_dictionary(id_to_elo_rating, "C") = 3

\* The dictionary once the first k rows the loop reads are processed
RatingStateAfter(k) ==
  for_loop(driver_locals(new_id_to_elo_rating), SubSeq(ValidRows, 1, k))
    .id_to_elo_rating

\* The contest recorded last; every contest is the last one in the states
\* between its iteration and the next
LastContest == Cardinality(Contests)

\* C25: the four ranks recorded for a contest are ranks in the dictionary
\* after both updates of that contest: the winner entry's subject_ranking is
\* the loser entry's agent_ranking, the winner entry's agent_ranking is the
\* loser entry's subject_ranking, and both are the ranks of the updated
\* ratings.  Stated of the contest recorded last, whose updates are the last
\* ones written to the dictionary.
C25_RanksAreOfTheUpdatedRatings ==
  (pc \in {"iterating", "done"} /\ Contests # {}) =>
    LET winner_entry == WinnerEntry(LastContest)
        loser_entry == LoserEntry(LastContest)
    IN /\ winner_entry.subject_ranking = loser_entry.agent_ranking
       /\ winner_entry.agent_ranking = loser_entry.subject_ranking
       /\ winner_entry.subject_ranking
            = get_ranking_from_elo_rating_dictionary(
                id_to_elo_rating, winner_entry.subject_id)
       /\ loser_entry.subject_ranking
            = get_ranking_from_elo_rating_dictionary(
                id_to_elo_rating, loser_entry.subject_id)
       /\ getitem(id_to_elo_rating, winner_entry.subject_id)
            = winner_entry.updated_elo_rating
       /\ getitem(id_to_elo_rating, loser_entry.subject_id)
            = loser_entry.updated_elo_rating

\* The second contest exchanges the ranks of its two subjects: its winner
\* was ranked 2 before it and is recorded with rank 1, its loser with rank 2
C25_Witness ==
  /\ pc = "done"
  /\ Contests = {1, 2}
  /\ PairwiseRows
  /\ {WinnerEntry(2).subject_id, LoserEntry(2).subject_id}
       \subseteq Keys(RatingStateAfter(1))
  /\ get_ranking_from_elo_rating_dictionary(
       RatingStateAfter(1), WinnerEntry(2).subject_id) = 2
  /\ get_ranking_from_elo_rating_dictionary(
       RatingStateAfter(1), LoserEntry(2).subject_id) = 1
  /\ WinnerEntry(2).subject_ranking = 1
  /\ LoserEntry(2).agent_ranking = 1
  /\ WinnerEntry(2).agent_ranking = 2
  /\ LoserEntry(2).subject_ranking = 2

\* The indexes of the ledger entries of a subject, and the last of them
EntriesOf(id) ==
  {i \in DOMAIN index_to_elo_rating_and_meta_data :
     index_to_elo_rating_and_meta_data[i].subject_id = id}

LastEntryOf(id) ==
  index_to_elo_rating_and_meta_data[
    CHOOSE i \in EntriesOf(id) : \A j \in EntriesOf(id) : j <= i]

\* The dictionary reflects exactly the contests processed so far: its keys
\* are the ids seen so far, the first entry of a subject starts from the
\* default, each later entry of a subject starts from the updated rating of
\* the subject's entry before it, and the dictionary holds the updated
\* rating of the subject's last entry.
RatingStateReflectsLedger ==
  /\ Keys(id_to_elo_rating) = {Appearances[k] : k \in DOMAIN Appearances}
  /\ \A id \in Keys(id_to_elo_rating) :
       /\ \A j \in EntriesOf(id) :
            LET before == {i \in EntriesOf(id) : i < j}
            IN index_to_elo_rating_and_meta_data[j].original_elo_rating
                 = IF before = {} THEN default_elo_rating
                   ELSE index_to_elo_rating_and_meta_data[
                          CHOOSE i \in before : \A h \in before : h <= i]
                          .updated_elo_rating
       /\ getitem(id_to_elo_rating, id)
            = IF EntriesOf(id) = {} THEN default_elo_rating
              ELSE LastEntryOf(id).updated_elo_rating

\* C26: the dictionary always reflects exactly the contests processed so
\* far: it never loses a key, its keys are the ids seen so far, the original
\* rating in the (n+1)-th entry of a subject is the updated rating in its
\* n-th entry, and no contest changes the rating of a subject that took no
\* part in it.  Stated for streams of pairwise contests, whose rows name two
\* different ids.
C26_RatingStateReflectsContestsSoFar ==
  PairwiseRows => RatingStateReflectsLedger

\* A took part in the first and the third contest and not in the second:
\* its entry of the third contest starts from the rating the first gave it
C26_Witness ==
  /\ pc = "done"
  /\ PairwiseRows
  /\ Contests = {1, 2, 3}
  /\ "A" \in {WinnerEntry(1).subject_id, LoserEntry(1).subject_id}
  /\ "A" \notin {WinnerEntry(2).subject_id, LoserEntry(2).subject_id}
  /\ "A" \in {WinnerEntry(3).subject_id, LoserEntry(3).subject_id}
  /\ Cardinality(EntriesOf("A")) = 2
  /\ LastEntryOf("A").original_elo_rating # default_elo_rating
  /\ getitem(id_to_elo_rating, "A") = LastEntryOf("A").updated_elo_rating

\* One decimal: a tenth of a rating point
Tenth == RatingScale \div (10 ^ number_of_decimals)

\* C27: rounding is applied after each update and the rounded value is what
\* the next contest reads: after every contest every rating of the
\* dictionary and every original and updated rating of the ledger is a
\* multiple of 0.1, and the contest recorded last started from the ratings
\* that the entries before it recorded as updated.
C27_EveryRatingHasOneDecimal ==
  /\ \A p \in 1..Len(id_to_elo_rating) : id_to_elo_rating[p].rating % Tenth = 0
  /\ \A i \in DOMAIN index_to_elo_rating_and_meta_data :
       /\ index_to_elo_rating_and_meta_data[i].original_elo_rating % Tenth = 0
       /\ index_to_elo_rating_and_meta_data[i].updated_elo_rating % Tenth = 0
  /\ Contests # {} =>
       \A entry \in {WinnerEntry(LastContest), LoserEntry(LastContest)} :
          LET before == {i \in EntriesOf(entry.subject_id) :
                           i < 2 * LastContest - 2}
          IN entry.original_elo_rating
               = IF before = {} THEN default_elo_rating
                 ELSE index_to_elo_rating_and_meta_data[
                        CHOOSE i \in before : \A h \in before : h <= i]
                        .updated_elo_rating

\* The third contest reads a rating that the second contest rounded to a
\* tenth that is not a whole point, and rounds its own update
C27_Witness ==
  /\ pc = "done"
  /\ Contests = {1, 2, 3}
  /\ PairwiseRows
  /\ WinnerEntry(3).original_elo_rating % RatingScale # 0
  /\ WinnerEntry(3).original_elo_rating % Tenth = 0
  /\ WinnerEntry(3).updated_elo_rating % RatingScale # 0
  /\ WinnerEntry(3).updated_elo_rating % Tenth = 0


\* C28: in the rating driver with a tie column, a contest whose tie cell is
\* empty is scored as a win and a loss: its winner entry records 1 and its
\* loser entry 0.
C28_EmptyTieCellIsWinLoss ==
  (function_name = "rating" /\ tie_column # None /\ PairwiseRows) =>
    \A k \in Contests :
       ValidRows[k].tie \in {"NaN", "NA"} =>
         /\ WinnerEntry(k).win_draw_loss = Win
         /\ LoserEntry(k).win_draw_loss = Loss

\* The ledger a driver returns is the ledger of the rows it kept, and one
\* match number is consumed for each of them
SkippedRowsLeaveNoTrace ==
  pc = "done" =>
    /\ index_to_elo_rating_and_meta_data
         = for_loop(driver_locals(new_id_to_elo_rating), ValidRows)
             .index_to_elo_rating_and_meta_data
    /\ id_to_elo_rating
         = for_loop(driver_locals(new_id_to_elo_rating), ValidRows)
             .id_to_elo_rating
    /\ total_match_number = Len(ValidRows) + 1

\* C29: a row skipped for its missing winner id has no effect at all: the
\* ledger returned is the ledger of the same stream with that row removed.
\* When none of the rows kept holds a pandas.NA in the tie column, the tie
\* column of the stream without the skipped rows is one astype(bool)
\* accepts, and the rating driver scores each row by the truth of its cell.
C29_SkippedRowHasNoEffect ==
  (pc = "done" /\ PairwiseRows) =>
    /\ SkippedRowsLeaveNoTrace
    /\ (/\ function_name = "rating"
        /\ tie_column # None
        /\ \A i \in 1..Len(ValidRows) : ValidRows[i].tie # "NA") =>
         \A k \in Contests :
            WinnerEntry(k).win_draw_loss
              = IF astype_bool(ValidRows[k].tie) THEN Draw ELSE Win

\* The sum of the ratings of a dictionary
RECURSIVE SumOfRatings(_)
SumOfRatings(d) ==
  IF d = <<>> THEN 0 ELSE d[1].rating + SumOfRatings(Tail(d))

\* C30: rating points are conserved: in every contest between two distinct
\* subjects, won or tied, the winner's change is the negative of the loser's
\* change, so after any sequence of such contests the ratings of the
\* dictionary sum to 1000 times the number of subjects seen.
C30_RatingPointsAreConserved ==
  /\ \A k \in Contests :
       WinnerEntry(k).subject_id # LoserEntry(k).subject_id =>
         WinnerEntry(k).updated_elo_rating - WinnerEntry(k).original_elo_rating
           = - (LoserEntry(k).updated_elo_rating
                  - LoserEntry(k).original_elo_rating)
  /\ PairwiseRows =>
       SumOfRatings(id_to_elo_rating)
         = default_elo_rating * Len(id_to_elo_rating)

\* Three subjects after three contests of two distinct subjects: each of the
\* three ratings differs from 1000, one is not a whole number of points, and
\* they sum to 3000
C30_Witness ==
  /\ pc = "done"
  /\ PairwiseRows
  /\ Contests = {1, 2, 3}
  /\ Len(id_to_elo_rating) = 3
  /\ \A p \in 1..3 : id_to_elo_rating[p].rating # default_elo_rating
  /\ \E p \in 1..3 : id_to_elo_rating[p].rating % RatingScale # 0
  /\ SumOfRatings(id_to_elo_rating) = 3 * default_elo_rating

====
